---- MODULE Spec2Model ----
(***************************************************************************)
(* Model of the rotorcraft sizing model of src/rotorcraft.py together with *)
(* the configuration objects of src/mission_design.py and the constants of *)
(* src/mars_constants.py.                                                  *)
(*                                                                         *)
(* Python floats are modelled as decimal floating-point numbers with a     *)
(* four-digit mantissa: a number is a record [m, e] standing for m * 10^e, *)
(* normalised so that 1000 <= |m| <= 9999, or m = 0 and e = 0.  Every      *)
(* arithmetic operator computes the exact result and truncates it to four  *)
(* digits, so rounding, cancellation and comparison behave as they do for  *)
(* floats, at reduced precision.  The arithmetic operators are functions,  *)
(* so that an argument is evaluated once, as Python evaluates it.          *)
(***************************************************************************)
EXTENDS Integers, Sequences, FiniteSets, TLC

(***************************************************************************)
(* Floating-point arithmetic                                               *)
(***************************************************************************)
Abs(n) == IF n < 0 THEN 0 - n ELSE n

Sgn(n) == IF n < 0 THEN 0 - 1 ELSE 1

Pow10(k) == 10 ^ k

Digits(a) ==
    IF a < 10 THEN 1 ELSE IF a < 100 THEN 2 ELSE IF a < 1000 THEN 3
    ELSE IF a < 10000 THEN 4 ELSE IF a < 100000 THEN 5
    ELSE IF a < 1000000 THEN 6 ELSE IF a < 10000000 THEN 7
    ELSE IF a < 100000000 THEN 8 ELSE IF a < 1000000000 THEN 9 ELSE 10

\* the floats
Float == [m : Int, e : Int]

\* the float m * 10^e, m # 0 of d digits, truncated to four significant digits
NormDigits[m \in Int, e \in Int, d \in Int] ==
    IF d > 4
    THEN [m |-> Sgn(m) * (Abs(m) \div Pow10(d - 4)), e |-> e + (d - 4)]
    ELSE [m |-> m * Pow10(4 - d), e |-> e - (4 - d)]

\* the float m * 10^e, truncated to four significant digits
Norm[m \in Int, e \in Int] ==
    IF m = 0 THEN [m |-> 0, e |-> 0] ELSE NormDigits[m, e, Digits(Abs(m))]

\* an int converted to float
FromInt[n \in Int] == Norm[n, 0]

FNeg[a \in Float] == [m |-> 0 - a.m, e |-> a.e]

\* hi + lo, hi the operand of the larger exponent; a lo below the last digit
\* of hi is lost
FAddAligned[hi \in Float, lo \in Float] ==
    IF hi.e - lo.e > 5 THEN hi
    ELSE Norm[hi.m * Pow10(hi.e - lo.e) + lo.m, lo.e]

FAdd[a \in Float, b \in Float] ==
    IF a.m = 0 THEN b
    ELSE IF b.m = 0 THEN a
    ELSE IF a.e >= b.e THEN FAddAligned[a, b] ELSE FAddAligned[b, a]

FSub[a \in Float, b \in Float] == FAdd[a, FNeg[b]]

FMul[a \in Float, b \in Float] == Norm[a.m * b.m, a.e + b.e]

FDiv[a \in Float, b \in Float] ==
    Norm[Sgn(a.m) * Sgn(b.m) * ((Abs(a.m) * 10000) \div Abs(b.m)), a.e - b.e - 4]

FLt[a \in Float, b \in Float] == FSub[a, b].m < 0

FGt[a \in Float, b \in Float] == FLt[b, a]

\* Newton's iteration for the integer square root, from above
NewtonSqrt[n \in Nat, x \in Nat] ==
    LET y == (x + n \div x) \div 2
    IN  IF y >= x THEN x ELSE NewtonSqrt[n, y]

\* floor of the square root of n, 0 <= n <= 10^9
ISqrt(n) == IF n = 0 THEN 0 ELSE NewtonSqrt[n, 31623]

\* np.sqrt(a) and a ** 0.5, a >= 0
FSqrt[a \in Float] ==
    IF a.e % 2 = 0
    THEN Norm[ISqrt(a.m * 10000), (a.e - 4) \div 2]
    ELSE Norm[ISqrt(a.m * 100000), (a.e - 5) \div 2]

\* Newton's iteration for the integer cube root, from above
NewtonCbrt[n \in Nat, x \in Nat] ==
    LET y == (2 * x + n \div (x * x)) \div 3
    IN  IF y >= x THEN x ELSE NewtonCbrt[n, y]

\* floor of the cube root of n, 0 <= n <= 10^9
ICbrt(n) == IF n = 0 THEN 0 ELSE NewtonCbrt[n, 1000]

\* a ** (1/3), a >= 0
FCbrt[a \in Float] ==
    LET k == 3 + ((a.e - 3) % 3)
    IN  Norm[ICbrt(a.m * Pow10(k)), (a.e - k) \div 3]

\* a ** 0.86, a >= 0: the exponent taken to six binary places,
\* 0.110111b = 1/2 + 1/4 + 1/16 + 1/32 + 1/64
FPow086[a \in Float] ==
    LET s1 == FSqrt[a]
        s2 == FSqrt[s1]
        s3 == FSqrt[s2]
        s4 == FSqrt[s3]
        s5 == FSqrt[s4]
        s6 == FSqrt[s5]
    IN  FMul[FMul[FMul[FMul[s1, s2], s4], s5], s6]

\* a ** 2 and a ** 3
FSquare[a \in Float] == FMul[a, a]

FCube[a \in Float] == FMul[FMul[a, a], a]

\* np.cos(x) for a small angle x in radians: 1 - x^2/2 + x^4/24 - x^6/720
FCos[x \in Float] ==
    LET x2 == FMul[x, x]
        x4 == FMul[x2, x2]
        x6 == FMul[x4, x2]
    IN  FSub[FAdd[FSub[FromInt[1], FDiv[x2, FromInt[2]]], FDiv[x4, FromInt[24]]],
             FDiv[x6, FromInt[720]]]

\* np.pi
Pi == Norm[31415, 0 - 4]

(***************************************************************************)
(* src/mars_constants.py                                                   *)
(***************************************************************************)
GRAVITY == Norm[371, 0 - 2]

SPEED_OF_SOUND == Norm[2331, 0 - 1]

DENSITY == Norm[15, 0 - 3]

SOL_SECONDS == FAdd[FAdd[FromInt[24 * 60 * 60], FromInt[39 * 60]], Norm[35244, 0 - 3]]

(***************************************************************************)
(* State: one sizing-model instance and the three configuration objects it *)
(* was constructed with.                                                   *)
(***************************************************************************)
VARIABLES
    rotorcraft,          \* the instance's attributes: attribute name -> value
    mission_scenario,    \* the FlightMissionScenario object
    design_constraints,  \* the DesignConstraints object
    design_assumptions,  \* the DesignAssumptions object
    last,                \* outcome of the last public call on the instance
    calls,               \* the calc_and_verify_initial_design calls made by the last public call
    instances,           \* the instances threads work on: a sequence of attribute maps
    threads              \* the threads: each runs one public call, statement by statement

vars == <<rotorcraft, mission_scenario, design_constraints, design_assumptions, last, calls,
          instances, threads>>

\* an optional argument is a sequence: None (or omitted) is the empty sequence,
\* the value x is <<x>>
None == <<>>

\* self.<name> = v
SetAttr(self, name, v) == (name :> v) @@ self

\* a statement's value is computed once and then used by the statements after
\* it: e is evaluated once and Body applied to its value
Let(e, Body(_)) == CHOOSE r \in {Body(x) : x \in {e}} : TRUE

(***************************************************************************)
(* src/mission_design.py                                                   *)
(***************************************************************************)
FlightMissionScenario(forward_flight_speed) ==
    [HOVER_TIME |-> FromInt[5 * 60],
     FORWARD_FLIGHT_SPEED |-> forward_flight_speed,
     FORWARD_FLIGHT_DISTANCE |-> FromInt[600],
     CLIMB_HEIGHT |-> FromInt[50],
     CLIMB_RATE |-> FromInt[2],
     DESCENT_RATE |-> FromInt[2]]

get_single_flight_energy(scenario, hover_power, f_flight_power, avionics_power) ==
    LET climb_power_factor == Norm[15, 0 - 1]
        descent_power_factor == Norm[15, 0 - 1]
        climb_time == FDiv[scenario.CLIMB_HEIGHT, scenario.CLIMB_RATE]
        climb_power == FMul[hover_power, climb_power_factor]
        climb_energy == FMul[climb_power, climb_time]
        f_flight_time == FDiv[scenario.FORWARD_FLIGHT_DISTANCE, scenario.FORWARD_FLIGHT_SPEED]
        f_flight_energy == FMul[f_flight_power, f_flight_time]
        hover_energy == FMul[hover_power, scenario.HOVER_TIME]
        descent_time == FDiv[scenario.CLIMB_HEIGHT, scenario.DESCENT_RATE]
        descent_power == FMul[descent_power_factor, hover_power]
        descent_energy == FMul[descent_power, descent_time]
        total_time == FAdd[FAdd[FAdd[climb_time, f_flight_time], scenario.HOVER_TIME], descent_time]
        avionics_energy == FMul[avionics_power, total_time]
    IN  FAdd[FAdd[FAdd[FAdd[climb_energy, hover_energy], f_flight_energy], descent_energy],
             avionics_energy]

DesignConstraints(mass_limit, max_diameter) ==
    [CONTINGENCY_WEIGHT_FACTOR |-> Norm[2, 0 - 1],
     HOVER_THRUST_CONDITION |-> Norm[15, 0 - 1],
     MACH_TIP_LIMIT |-> Norm[8, 0 - 1],
     MACH_ADVANCING_TIP_LIMIT |-> Norm[95, 0 - 2],
     MASS_LIMIT |-> mass_limit,
     MAX_DIAMETER |-> max_diameter]

TIP_SPEED_LIMIT(constraints) == FMul[SPEED_OF_SOUND, constraints.MACH_TIP_LIMIT]

ADVANCING_TIP_SPEED_LIMIT(constraints) == FMul[SPEED_OF_SOUND, constraints.MACH_ADVANCING_TIP_LIMIT]

DesignAssumptions ==
    [BLADE_LOADING |-> Norm[175, 0 - 3],
     DRAG_COEF_MEAN |-> FDiv[Norm[102, 0 - 2], Norm[2825, 0 - 2]],
     FORWARD_FLIGHT_TILT_ANGLE |-> FromInt[15],
     MOTOR_EFFICIENCY |-> Norm[8, 0 - 1],
     AVIONICS_POWER |-> FromInt[35],
     SAMPLING_MECHANISM_POWER |-> FromInt[15],
     SAMPLING_TIME |-> FromInt[15 * 60],
     GROUND_MOBILITY_POWER |-> FromInt[100],
     GROUND_MOBILITY_TIME |-> FromInt[5 * 60],
     GROUND_MOBILITY_MASS_PROPORTION |-> Norm[5, 0 - 2],
     SOLAR_PANEL_ENERGY_PER_SOL |-> FromInt[540 * 60 * 60],
     SOLAR_PANEL_MASS_DENSITY |-> FromInt[2],
     BATTERY_CONTINGENCY |-> Norm[12, 0 - 1],
     USABLE_BATTERY_PERC |-> Norm[7, 0 - 1],
     BATTERY_DENSITY |-> Norm[2185, 0 - 1],
     ELECTRONICS_MASS |-> Norm[265, 0 - 2],
     ROTOR_MASS_FACTOR |-> FromInt[1],
     MOTOR_MASS_FACTOR |-> FromInt[1]]

(***************************************************************************)
(* src/rotorcraft.py: construction                                         *)
(***************************************************************************)
\* Rotorcraft.__init__
Rotorcraft(class, no_rotors, no_blades) ==
    [x \in {"__class__", "_no_rotors", "_no_blades", "_no_nonoverlapping_rotors"} |->
        CASE x = "__class__" -> class
          [] x = "_no_rotors" -> no_rotors
          [] x = "_no_blades" -> no_blades
          [] x = "_no_nonoverlapping_rotors" -> FromInt[no_rotors]]

ConventionalRotorcraft(no_rotors, no_blades) ==
    Rotorcraft("ConventionalRotorcraft", no_rotors, no_blades)

\* CoaxialRotorcraft that counts every rotor as a rotor group of its own
CoaxialRotorcraft_without_halving(no_rotors, no_blades) ==
    Rotorcraft("CoaxialRotorcraft", no_rotors, no_blades)

CoaxialRotorcraft(no_rotors, no_blades) ==
    SetAttr(Rotorcraft("CoaxialRotorcraft", no_rotors, no_blades),
            "_no_nonoverlapping_rotors", FDiv[FromInt[no_rotors], FromInt[2]])

TiltRotorcraft(no_rotors, no_nontilt_rotors, no_blades) ==
    SetAttr(Rotorcraft("TiltRotorcraft", no_rotors, no_blades),
            "_no_nontilt_rotors", no_nontilt_rotors)

(***************************************************************************)
(* src/rotorcraft.py: getters                                              *)
(***************************************************************************)
dc == design_constraints

da == design_assumptions

\* None is the empty sequence, a diameter d the sequence <<d>>
total_diameter(self) ==
    IF self["_no_nonoverlapping_rotors"] = FromInt[1]
    THEN <<FMul[FromInt[2], self["_rotor_radius"]]>>
    ELSE IF self["_no_nonoverlapping_rotors"] = FromInt[4]
    THEN <<FMul[FMul[FAdd[FromInt[1], FSqrt[FromInt[2]]], FromInt[2]], self["_rotor_radius"]]>>
    ELSE IF self["_no_nonoverlapping_rotors"] = FromInt[6]
    THEN <<FMul[FMul[FromInt[3], self["_rotor_radius"]], FromInt[2]]>>
    ELSE IF self["_no_nonoverlapping_rotors"] = FromInt[8]
    THEN <<FMul[FMul[FDiv[FromInt[17], FromInt[5]], self["_rotor_radius"]], FromInt[2]]>>
    ELSE <<>>

\* total_available_mass with the contingency fraction forgotten
total_available_mass_without_contingency(self) == self["_design_mass"]

total_available_mass(self) ==
    FMul[self["_design_mass"], FSub[FromInt[1], dc.CONTINGENCY_WEIGHT_FACTOR]]

max_thrust_per_rotor(self) == FDiv[self["_max_thrust"], FromInt[self["_no_rotors"]]]

hover_thrust_per_rotor(self) == FDiv[max_thrust_per_rotor(self), dc.HOVER_THRUST_CONDITION]

tiltrotor_multiplier(self) ==
    FDiv[FromInt[self["_no_rotors"]], FromInt[self["_no_nontilt_rotors"]]]

f_flight_thrust_per_rotor(self) ==
    IF self["__class__"] = "TiltRotorcraft"
    THEN FMul[hover_thrust_per_rotor(self), tiltrotor_multiplier(self)]
    ELSE FDiv[hover_thrust_per_rotor(self),
              FCos[FDiv[FMul[da.FORWARD_FLIGHT_TILT_ANGLE, Pi], FromInt[180]]]]

rotor_area(self) ==
    FMul[FMul[Norm[119087, 0 - 6], FSquare[self["_rotor_radius"]]], FromInt[self["_no_blades"]]]

disk_area(self) == FMul[FSquare[self["_rotor_radius"]], Pi]

induced_power_factor_hover(self) ==
    IF self["__class__"] = "CoaxialRotorcraft" THEN Norm[11, 0 - 1] ELSE Norm[12, 0 - 1]

induced_power_factor_forward(self) ==
    IF self["__class__"] = "CoaxialRotorcraft" THEN Norm[16, 0 - 1] ELSE FromInt[2]

\* rotor_servo_power_proportion with the coaxial value in the base class
rotor_servo_power_proportion_of_coaxial(self) == Norm[15, 0 - 2]

rotor_servo_power_proportion(self) ==
    IF self["__class__"] = "CoaxialRotorcraft" THEN Norm[15, 0 - 2] ELSE FromInt[0]

propulsive_efficiency(self) ==
    FMul[da.MOTOR_EFFICIENCY, FSub[FromInt[1], rotor_servo_power_proportion(self)]]

(***************************************************************************)
(* src/rotorcraft.py: calculations of parameters                           *)
(***************************************************************************)
\* calc_max_thrust from the mass left after the contingency
calc_max_thrust_from_available_mass(self, design_mass) ==
    IF self["__class__"] = "TiltRotorcraft"
    THEN FMul[FMul[FMul[dc.HOVER_THRUST_CONDITION, total_available_mass(self)], GRAVITY],
              tiltrotor_multiplier(self)]
    ELSE FMul[FMul[dc.HOVER_THRUST_CONDITION, total_available_mass(self)], GRAVITY]

calc_max_thrust(self, design_mass) ==
    IF self["__class__"] = "TiltRotorcraft"
    THEN FMul[FMul[FMul[dc.HOVER_THRUST_CONDITION, design_mass], GRAVITY],
              tiltrotor_multiplier(self)]
    ELSE FMul[FMul[dc.HOVER_THRUST_CONDITION, design_mass], GRAVITY]

calc_rotor_area(self, thrust_per_rotor) ==
    FDiv[thrust_per_rotor,
         FMul[FMul[DENSITY, da.BLADE_LOADING], FSquare[TIP_SPEED_LIMIT(dc)]]]

calc_tip_speed(self, thrust_per_rotor, blade_area) ==
    FSqrt[FDiv[thrust_per_rotor, FMul[FMul[DENSITY, da.BLADE_LOADING], blade_area]]]

calc_rotor_radius(self, thrust_per_rotor) ==
    LET rotor_area_req == calc_rotor_area(self, thrust_per_rotor)
        blade_area == FDiv[rotor_area_req, FromInt[self["_no_blades"]]]
    IN  FMul[Norm[28978, 0 - 4], FSqrt[blade_area]]

calc_thrust_power(self, thrust_per_rotor, blade_area, induced_power_factor, tip_speed, no_rotors) ==
    LET induced_power ==
            FMul[FMul[induced_power_factor, thrust_per_rotor],
                 FSqrt[FDiv[thrust_per_rotor, FMul[FMul[FromInt[2], DENSITY], disk_area(self)]]]]
        profile_power ==
            FDiv[FMul[FMul[FMul[DENSITY, blade_area], FCube[tip_speed]], da.DRAG_COEF_MEAN],
                 FromInt[8]]
        thrust_power_per_rotor == FAdd[induced_power, profile_power]
    IN  FDiv[FMul[thrust_power_per_rotor, FromInt[no_rotors]], propulsive_efficiency(self)]

calc_max_thrust_power(self, max_thrust_per_rotor_arg, blade_area) ==
    calc_thrust_power(self, max_thrust_per_rotor_arg, blade_area,
                      induced_power_factor_hover(self), TIP_SPEED_LIMIT(dc), self["_no_rotors"])

hover_tip_speed(self) == calc_tip_speed(self, hover_thrust_per_rotor(self), rotor_area(self))

f_flight_tip_speed(self) == calc_tip_speed(self, f_flight_thrust_per_rotor(self), rotor_area(self))

hover_power(self) ==
    calc_thrust_power(self, hover_thrust_per_rotor(self), rotor_area(self),
                      induced_power_factor_hover(self), hover_tip_speed(self), self["_no_rotors"])

f_flight_power(self) ==
    IF self["__class__"] = "TiltRotorcraft"
    THEN LET nontilted_power ==
                 calc_thrust_power(self, f_flight_thrust_per_rotor(self), rotor_area(self),
                                   induced_power_factor_forward(self),
                                   ADVANCING_TIP_SPEED_LIMIT(dc), self["_no_nontilt_rotors"])
             tilted_power ==
                 calc_thrust_power(self, hover_thrust_per_rotor(self), rotor_area(self),
                                   induced_power_factor_hover(self), hover_tip_speed(self),
                                   self["_no_rotors"] - self["_no_nontilt_rotors"])
         IN  FAdd[nontilted_power, tilted_power]
    ELSE calc_thrust_power(self, f_flight_thrust_per_rotor(self), rotor_area(self),
                           induced_power_factor_forward(self), ADVANCING_TIP_SPEED_LIMIT(dc),
                           self["_no_rotors"])

motor_rpm_hover(self) ==
    FMul[FDiv[TIP_SPEED_LIMIT(dc), FMul[FMul[self["_rotor_radius"], FromInt[2]], Pi]],
         FromInt[60]]

max_forward_velocity(self) == FSub[ADVANCING_TIP_SPEED_LIMIT(dc), f_flight_tip_speed(self)]

\* a method that both assigns attributes and returns a value yields [self, ret]
calc_torque(self, thrust_power, rotor_radius) ==
    LET rotational_speed == FDiv[TIP_SPEED_LIMIT(dc), rotor_radius]
    IN  [self |-> SetAttr(self, "_motor_power_spec", FMul[hover_power(self), Norm[15, 0 - 1]]),
         ret  |-> FDiv[thrust_power, rotational_speed]]

\* calc_energy_per_sol returning the mission energy as summed, without the contingency
calc_energy_per_sol_without_contingency(self) ==
    LET flight_energy ==
            get_single_flight_energy(mission_scenario, hover_power(self), f_flight_power(self),
                                     da.AVIONICS_POWER)
        ground_mobility_energy == FMul[da.GROUND_MOBILITY_POWER, da.GROUND_MOBILITY_TIME]
        sampling_mechanism_energy == FMul[da.SAMPLING_MECHANISM_POWER, da.SAMPLING_TIME]
        sleep_energy == FMul[FMul[Norm[518, 0 - 3], FCbrt[self["_design_mass"]]], SOL_SECONDS]
    IN  [self |-> SetAttr(SetAttr(SetAttr(SetAttr(self,
                      "_flight_energy", flight_energy),
                      "_ground_mobility_energy", ground_mobility_energy),
                      "_sampling_mechanism_energy", sampling_mechanism_energy),
                      "_sleep_energy", sleep_energy),
         ret  |-> FAdd[FAdd[FAdd[flight_energy, ground_mobility_energy],
                            sampling_mechanism_energy], sleep_energy]]

calc_energy_per_sol(self) ==
    LET flight_energy ==
            get_single_flight_energy(mission_scenario, hover_power(self), f_flight_power(self),
                                     da.AVIONICS_POWER)
        ground_mobility_energy == FMul[da.GROUND_MOBILITY_POWER, da.GROUND_MOBILITY_TIME]
        sampling_mechanism_energy == FMul[da.SAMPLING_MECHANISM_POWER, da.SAMPLING_TIME]
        sleep_energy == FMul[FMul[Norm[518, 0 - 3], FCbrt[self["_design_mass"]]], SOL_SECONDS]
        mission_energy ==
            FAdd[FAdd[FAdd[flight_energy, ground_mobility_energy], sampling_mechanism_energy],
                 sleep_energy]
    IN  [self |-> SetAttr(SetAttr(SetAttr(SetAttr(self,
                      "_flight_energy", flight_energy),
                      "_ground_mobility_energy", ground_mobility_energy),
                      "_sampling_mechanism_energy", sampling_mechanism_energy),
                      "_sleep_energy", sleep_energy),
         ret  |-> FMul[da.BATTERY_CONTINGENCY, mission_energy]]

calc_empty_mass(self, torque, energy) ==
    LET motor_mass == FMul[FMul[da.MOTOR_MASS_FACTOR, Norm[76, 0 - 3]], FPow086[torque]]
        energy_required == FDiv[energy, da.USABLE_BATTERY_PERC]
        energy_required_Wh == FDiv[energy_required, FromInt[60 * 60]]
        battery_mass == FDiv[energy_required_Wh, da.BATTERY_DENSITY]
        solar_panel_area == FDiv[energy_required, da.SOLAR_PANEL_ENERGY_PER_SOL]
        solar_panel_mass == FMul[solar_panel_area, da.SOLAR_PANEL_MASS_DENSITY]
        rotor_mass ==
            FMul[FMul[FMul[FDiv[Norm[168, 0 - 3], Norm[72, 0 - 2]], self["_rotor_radius"]],
                      FromInt[self["_no_blades"]]], FromInt[self["_no_rotors"]]]
        structure_mass ==
            FSub[FMul[FDiv[FromInt[1], FromInt[3]], self["_design_mass"]],
                 FMul[FDiv[FromInt[1], da.ROTOR_MASS_FACTOR], rotor_mass]]
        ground_mobility_mass == FMul[da.GROUND_MOBILITY_MASS_PROPORTION, self["_design_mass"]]
        flight_electronics_mass == da.ELECTRONICS_MASS
    IN  [self |-> SetAttr(SetAttr(SetAttr(SetAttr(SetAttr(SetAttr(SetAttr(self,
                      "_motor_mass", motor_mass),
                      "_battery_mass", battery_mass),
                      "_solar_panel_mass", solar_panel_mass),
                      "_rotor_mass", rotor_mass),
                      "_structure_mass", structure_mass),
                      "_ground_mobility_mass", ground_mobility_mass),
                      "_flight_electronics_mass", flight_electronics_mass),
         ret  |-> FAdd[FAdd[FAdd[FAdd[FAdd[FAdd[motor_mass, solar_panel_mass], battery_mass],
                       rotor_mass], structure_mass], ground_mobility_mass],
                       flight_electronics_mass]]

\* calc_energy_from_battery_mass without the division by BATTERY_CONTINGENCY
calc_energy_from_battery_mass_without_contingency(self, battery_mass) ==
    FMul[FMul[FMul[FMul[battery_mass, da.BATTERY_DENSITY], FromInt[60]], FromInt[60]],
         da.USABLE_BATTERY_PERC]

calc_energy_from_battery_mass(self, battery_mass) ==
    FDiv[FMul[FMul[FMul[FMul[battery_mass, da.BATTERY_DENSITY], FromInt[60]], FromInt[60]],
              da.USABLE_BATTERY_PERC], da.BATTERY_CONTINGENCY]

\* calc_payload with the contingency forgotten: the design mass instead of the available mass
calc_payload_from_design_mass(self, available_mass, empty_mass) ==
    FSub[self["_design_mass"], empty_mass]

calc_payload(self, available_mass, empty_mass) == FSub[available_mass, empty_mass]

(***************************************************************************)
(* src/rotorcraft.py: calc_and_verify_initial_design, statement by         *)
(* statement.  Reading the property max_thrust_per_rotor assigns           *)
(* _max_thrust_per_rotor, reading total_available_mass assigns             *)
(* _total_available_mass.                                                  *)
(***************************************************************************)
\* "not design_mass": None and zero are falsy
Falsy(design_mass) == design_mass = None \/ design_mass[1].m = 0

read_max_thrust_per_rotor(self) == SetAttr(self, "_max_thrust_per_rotor", max_thrust_per_rotor(self))

\* set_design_mass that keeps a design mass the instance already holds
set_design_mass_once(self, design_mass) ==
    IF "_design_mass" \in DOMAIN self THEN self
    ELSE SetAttr(self, "_design_mass",
                 IF Falsy(design_mass) THEN dc.MASS_LIMIT ELSE design_mass[1])

set_design_mass(self, design_mass) ==
    SetAttr(self, "_design_mass", IF Falsy(design_mass) THEN dc.MASS_LIMIT ELSE design_mass[1])

\* set_max_thrust that also assigns the rotor-group count as Rotorcraft.__init__
\* does, losing the halving of the coaxial constructor
set_max_thrust_resetting_rotor_groups(self) ==
    SetAttr(SetAttr(self, "_no_nonoverlapping_rotors", FromInt[self["_no_rotors"]]),
            "_max_thrust", calc_max_thrust(self, self["_design_mass"]))

set_max_thrust(self) ==
    SetAttr(self, "_max_thrust", calc_max_thrust(self, self["_design_mass"]))

\* set_rotor_radius that computes the radius without assigning it to self
set_rotor_radius_unassigned(self) == read_max_thrust_per_rotor(self)

set_rotor_radius(self) ==
    SetAttr(read_max_thrust_per_rotor(self), "_rotor_radius",
            calc_rotor_radius(self, max_thrust_per_rotor(self)))

set_max_thrust_power(self) ==
    SetAttr(read_max_thrust_per_rotor(self), "_max_thrust_power",
            calc_max_thrust_power(self, hover_thrust_per_rotor(self), rotor_area(self)))

set_torque(self) ==
    Let(calc_torque(read_max_thrust_per_rotor(self), self["_max_thrust_power"],
                    self["_rotor_radius"]),
        LAMBDA r : SetAttr(r.self, "_torque", r.ret))

set_energy_per_sol(self) ==
    Let(calc_energy_per_sol(read_max_thrust_per_rotor(self)),
        LAMBDA r : SetAttr(r.self, "_energy_per_sol", r.ret))

set_empty_mass(self) ==
    Let(calc_empty_mass(self, self["_torque"], self["_energy_per_sol"]),
        LAMBDA r : SetAttr(r.self, "_empty_mass", r.ret))

\* set_payload that takes the available mass the instance already holds
set_payload_from_held_available_mass(self) ==
    Let(IF "_total_available_mass" \in DOMAIN self THEN self
        ELSE SetAttr(self, "_total_available_mass", total_available_mass(self)),
        LAMBDA s : SetAttr(s, "_payload",
                           calc_payload(s, s["_total_available_mass"], s["_empty_mass"])))

set_payload(self) ==
    Let(SetAttr(self, "_total_available_mass", total_available_mass(self)),
        LAMBDA s : SetAttr(s, "_payload",
                           calc_payload(s, total_available_mass(s), s["_empty_mass"])))

\* the three "raise ValueError(...)" of calc_and_verify_initial_design, by message
MsgDiameter == "Cannot create required thrust to fit in aeroshell"

MsgSpeed == "Cannot travel at desired speed for mission"

MsgPayload == "Payload is less than zero"

\* a call ends by raising exc (ret is empty) or by returning ret[1] (exc is "none")
Raise(self, exc, msg) == [self |-> self, exc |-> exc, msg |-> msg, ret |-> <<>>]

Return(self, value) == [self |-> self, exc |-> "none", msg |-> "", ret |-> <<value>>]

\* check_diameter with ">=" for ">": a diameter equal to the limit is rejected
check_diameter_ge(self) ==
    IF total_diameter(self) = <<>> THEN "TypeError"
    ELSE IF ~FLt[total_diameter(self)[1], dc.MAX_DIAMETER] THEN "ValueError"
    ELSE "none"

check_diameter(self) ==
    IF total_diameter(self) = <<>> THEN "TypeError"
    ELSE IF FGt[total_diameter(self)[1], dc.MAX_DIAMETER] THEN "ValueError"
    ELSE "none"

\* check_forward_velocity with "<=" for "<": a velocity equal to the cruise speed is rejected
check_forward_velocity_le(self) ==
    IF ~FGt[max_forward_velocity(self), mission_scenario.FORWARD_FLIGHT_SPEED]
    THEN "ValueError" ELSE "none"

check_forward_velocity(self) ==
    IF FLt[max_forward_velocity(self), mission_scenario.FORWARD_FLIGHT_SPEED]
    THEN "ValueError" ELSE "none"

\* check_payload with "<=" for "<": a payload of zero is rejected
check_payload_le(self) ==
    IF ~FGt[self["_payload"], FromInt[0]] THEN "ValueError" ELSE "none"

check_payload(self) ==
    IF FLt[self["_payload"], FromInt[0]] THEN "ValueError" ELSE "none"

\* calc_and_verify_initial_design with the cruise-speed check moved ahead of the
\* diameter check
calc_and_verify_initial_design_speed_check_first(self, design_mass) ==
    Let(set_design_mass(self, design_mass), LAMBDA s37 :
    Let(set_max_thrust(s37), LAMBDA s40 :
    Let(set_rotor_radius(s40), LAMBDA s43 :
        IF check_forward_velocity(s43) = "ValueError"
        THEN Raise(read_max_thrust_per_rotor(s43), "ValueError", MsgSpeed)
        ELSE
    Let(check_diameter(s43), LAMBDA diameter_check :
        IF diameter_check = "TypeError"
        THEN Raise(s43, "TypeError",
                   "'>' not supported between instances of 'NoneType' and 'float'")
        ELSE IF diameter_check = "ValueError"
        THEN Raise(s43, "ValueError", MsgDiameter)
        ELSE
    Let(set_max_thrust_power(s43), LAMBDA s49 :
    Let(set_torque(s49), LAMBDA s52 :
    Let(set_energy_per_sol(read_max_thrust_per_rotor(s52)), LAMBDA s59 :
    Let(set_empty_mass(s59), LAMBDA s61 :
    Let(set_payload(s61), LAMBDA s64 :
        IF check_payload(s64) = "ValueError"
        THEN Raise(s64, "ValueError", MsgPayload)
        ELSE Return(s64, s64["_payload"]))))))))))

\* sNN is self after the assignment of line NN
calc_and_verify_initial_design(self, design_mass) ==
    Let(set_design_mass(self, design_mass), LAMBDA s37 :
    Let(set_max_thrust(s37), LAMBDA s40 :
    Let(set_rotor_radius(s40), LAMBDA s43 :
    Let(check_diameter(s43), LAMBDA diameter_check :
        IF diameter_check = "TypeError"
        THEN Raise(s43, "TypeError",
                   "'>' not supported between instances of 'NoneType' and 'float'")
        ELSE IF diameter_check = "ValueError"
        THEN Raise(s43, "ValueError", MsgDiameter)
        ELSE
    Let(set_max_thrust_power(s43), LAMBDA s49 :
    Let(set_torque(s49), LAMBDA s52 :
        IF check_forward_velocity(s52) = "ValueError"
        THEN Raise(read_max_thrust_per_rotor(s52), "ValueError", MsgSpeed)
        ELSE
    Let(set_energy_per_sol(read_max_thrust_per_rotor(s52)), LAMBDA s59 :
    Let(set_empty_mass(s59), LAMBDA s61 :
    Let(set_payload(s61), LAMBDA s64 :
        IF check_payload(s64) = "ValueError"
        THEN Raise(s64, "ValueError", MsgPayload)
        ELSE Return(s64, s64["_payload"]))))))))))

(***************************************************************************)
(* src/rotorcraft.py: analyses                                             *)
(***************************************************************************)
\* the record kept of one calc_and_verify_initial_design call
EvalCall(design_mass, r) ==
    [design_mass |-> design_mass, exc |-> r.exc, msg |-> r.msg, ret |-> r.ret, self |-> r.self]

\* design_masses = [10, 15, 20, 25, 30, 35, 40, 45, 50]
DefaultDesignMasses ==
    <<FromInt[10], FromInt[15], FromInt[20], FromInt[25], FromInt[30], FromInt[35],
      FromInt[40], FromInt[45], FromInt[50]>>

\* [payload/design_mass for payload, design_mass in zip(payloads, masses)]
ZipDivide(payloads, masses) ==
    [i \in 1..(IF Len(payloads) < Len(masses) THEN Len(payloads) ELSE Len(masses)) |->
        FDiv[payloads[i], masses[i]]]

\* the for loop of payload_efficiency_analysis from grid position i on;
\* acc holds self, the lists built so far and the exception that left the loop
RECURSIVE payload_efficiency_loop(_, _, _)
payload_efficiency_loop(acc, design_masses, i) ==
    IF i > Len(design_masses) \/ acc.exc # "none" THEN acc
    ELSE Let(calc_and_verify_initial_design(acc.self, <<design_masses[i]>>), LAMBDA r :
         Let(Append(acc.calls, EvalCall(<<design_masses[i]>>, r)), LAMBDA log :
         Let(IF r.exc = "none"
             THEN [acc EXCEPT !.self = r.self, !.calls = log,
                              !.payloads = Append(acc.payloads, r.ret[1]),
                              !.valid_design_masses =
                                  Append(acc.valid_design_masses, design_masses[i])]
             ELSE IF r.exc = "ValueError"
             THEN [acc EXCEPT !.self = r.self, !.calls = log]
             ELSE [acc EXCEPT !.self = r.self, !.calls = log, !.exc = r.exc, !.msg = r.msg],
             LAMBDA next : payload_efficiency_loop(next, design_masses, i + 1))))

\* payload_efficiency_analysis returning the whole grid as the valid design masses
payload_efficiency_analysis_whole_grid(self, design_masses_arg) ==
    Let(IF design_masses_arg = None THEN DefaultDesignMasses ELSE design_masses_arg[1],
        LAMBDA design_masses :
    Let(payload_efficiency_loop(
            [self |-> self, calls |-> <<>>, payloads |-> <<>>,
             valid_design_masses |-> <<>>, exc |-> "none", msg |-> ""],
            design_masses, 1),
        LAMBDA acc :
        [self |-> acc.self, calls |-> acc.calls, exc |-> acc.exc, msg |-> acc.msg,
         ret |-> IF acc.exc # "none" THEN <<>>
                 ELSE <<design_masses, ZipDivide(acc.payloads, design_masses)>>]))

payload_efficiency_analysis(self, design_masses_arg) ==
    Let(IF design_masses_arg = None THEN DefaultDesignMasses ELSE design_masses_arg[1],
        LAMBDA design_masses :
    Let(payload_efficiency_loop(
            [self |-> self, calls |-> <<>>, payloads |-> <<>>,
             valid_design_masses |-> <<>>, exc |-> "none", msg |-> ""],
            design_masses, 1),
        LAMBDA acc :
        [self |-> acc.self, calls |-> acc.calls, exc |-> acc.exc, msg |-> acc.msg,
         ret |-> IF acc.exc # "none" THEN <<>>
                 ELSE <<acc.valid_design_masses,
                        ZipDivide(acc.payloads, acc.valid_design_masses)>>]))

RECURSIVE number_of_blades_loop(_, _, _)
number_of_blades_loop(acc, design_masses, i) ==
    IF i > Len(design_masses) \/ acc.exc # "none" THEN acc
    ELSE Let(calc_and_verify_initial_design(acc.self, <<design_masses[i]>>), LAMBDA r :
         Let(Append(acc.calls, EvalCall(<<design_masses[i]>>, r)), LAMBDA log :
         Let(IF r.exc = "none"
             THEN [acc EXCEPT !.self = r.self, !.calls = log,
                              !.payloads = Append(acc.payloads, r.ret[1]),
                              !.rotor_radiuses =
                                  Append(acc.rotor_radiuses, r.self["_rotor_radius"]),
                              !.valid_design_masses =
                                  Append(acc.valid_design_masses, design_masses[i])]
             ELSE IF r.exc = "ValueError"
             THEN [acc EXCEPT !.self = r.self, !.calls = log]
             ELSE [acc EXCEPT !.self = r.self, !.calls = log, !.exc = r.exc, !.msg = r.msg],
             LAMBDA next : number_of_blades_loop(next, design_masses, i + 1))))

number_of_blades_analysis(self, design_masses_arg) ==
    Let(IF design_masses_arg = None THEN DefaultDesignMasses ELSE design_masses_arg[1],
        LAMBDA design_masses :
    Let(number_of_blades_loop(
            [self |-> self, calls |-> <<>>, payloads |-> <<>>, rotor_radiuses |-> <<>>,
             valid_design_masses |-> <<>>, exc |-> "none", msg |-> ""],
            design_masses, 1),
        LAMBDA acc :
        [self |-> acc.self, calls |-> acc.calls, exc |-> acc.exc, msg |-> acc.msg,
         ret |-> IF acc.exc # "none" THEN <<>>
                 ELSE <<acc.valid_design_masses,
                        ZipDivide(acc.payloads, design_masses),
                        acc.rotor_radiuses>>]))

\* int(x) of a float: truncation towards zero
int(x) ==
    IF x.e >= 0 THEN x.m * Pow10(x.e)
    ELSE IF 0 - x.e > 9 THEN 0
    ELSE Sgn(x.m) * (Abs(x.m) \div Pow10(0 - x.e))

\* list(range(start, stop))
range(start, stop) ==
    [k \in 1..(IF stop > start THEN stop - start ELSE 0) |-> FromInt[start + k - 1]]

\* hover_time_from_energy dividing by the forward-flight power
hover_time_from_f_flight_power(self, energy) == FDiv[energy, f_flight_power(self)]

hover_time_from_energy(self, energy) == FDiv[energy, hover_power(self)]

f_flight_distance_from_energy(self, energy) ==
    FMul[FDiv[energy, f_flight_power(self)], mission_scenario.FORWARD_FLIGHT_SPEED]

\* an exception of calc_and_verify_initial_design leaves trade_payload_for_battery
trade_payload_for_battery(self, design_mass, min_payload) ==
    Let(calc_and_verify_initial_design(self, design_mass), LAMBDA r :
        IF r.exc # "none"
        THEN [self |-> r.self, calls |-> <<EvalCall(design_mass, r)>>,
              exc |-> r.exc, msg |-> r.msg, ret |-> <<>>]
        ELSE
    Let(r.ret[1], LAMBDA max_payload :
    Let(Append(range(int(min_payload), int(max_payload) + 1), max_payload),
        LAMBDA valid_payloads :
    Let([i \in DOMAIN valid_payloads |->
            FAdd[FSub[max_payload, valid_payloads[i]], r.self["_battery_mass"]]],
        LAMBDA battery_masses :
    Let([i \in DOMAIN battery_masses |->
            calc_energy_from_battery_mass(r.self, battery_masses[i])],
        LAMBDA energies :
    Let([i \in DOMAIN energies |-> hover_time_from_energy(r.self, energies[i])],
        LAMBDA hover_times :
    Let([i \in DOMAIN energies |-> f_flight_distance_from_energy(r.self, energies[i])],
        LAMBDA f_flight_distances :
        [self |-> r.self, calls |-> <<EvalCall(design_mass, r)>>,
         exc |-> "none", msg |-> "",
         ret |-> <<valid_payloads, hover_times, f_flight_distances>>])))))))

\* the docstring of get_csv_summary: the header of the summary, column by column
CsvHeader ==
    <<"aircraft", "no_rotors", "no_nontilting_rotors", "no_blades", "max_thrust_requirement",
      "rotor_radius", "max_thrust_power", "hover_power", "f_flight_power", "motor_rpm_hover",
      "motor_power", "motor_power_spec", "motor_torque", "max_forward_velocity",
      "total_energy", "flight_energy", "ground_energy", "sampling_energy", "sleep_energy",
      "design_mass", "contingency_mass", "motor_mass", "battery_mass", "solar_panel_mass",
      "rotor_mass", "structure_mass", "ground_mobility_mass", "flight_elec_mass",
      "total_empty_mass", "payload">>

\* self.name: the name handed to the constructor plays no part in the sizing and
\* is not kept in the attribute map; one name stands for it
name(self) == "name"

\* the attributes get_csv_summary reads; one that was never assigned raises
\* AttributeError
CsvAttributes ==
    {"_max_thrust", "_rotor_radius", "_max_thrust_power", "_motor_power_spec", "_torque",
     "_energy_per_sol", "_flight_energy", "_ground_mobility_energy",
     "_sampling_mechanism_energy", "_sleep_energy", "_design_mass", "_total_available_mass",
     "_motor_mass", "_battery_mass", "_solar_panel_mass", "_rotor_mass",
     "_ground_mobility_mass", "_flight_electronics_mass", "_empty_mass", "_payload"}

\* ret is the list returned, value by value
get_csv_summary(self) ==
    IF ~(CsvAttributes \subseteq DOMAIN self)
    THEN Raise(self, "AttributeError", "object has no attribute")
    ELSE [Return(read_max_thrust_per_rotor(self), 0) EXCEPT !.ret =
                <<name(self), self["_no_rotors"], self["_no_rotors"], self["_no_blades"],
                  self["_max_thrust"], self["_rotor_radius"],
                  self["_max_thrust_power"], hover_power(self), f_flight_power(self),
                  motor_rpm_hover(self), self["_max_thrust_power"],
                  self["_motor_power_spec"], self["_torque"], max_forward_velocity(self),
                  self["_energy_per_sol"], self["_flight_energy"],
                  self["_ground_mobility_energy"], self["_sampling_mechanism_energy"],
                  self["_sleep_energy"],
                  self["_design_mass"], self["_total_available_mass"], self["_motor_mass"],
                  self["_battery_mass"], self["_solar_panel_mass"],
                  self["_rotor_mass"], self["_ground_mobility_mass"],
                  self["_flight_electronics_mass"], self["_empty_mass"], self["_payload"]>>]

(***************************************************************************)
(* Inputs                                                                  *)
(***************************************************************************)
\* longest explicit grid of design masses handed to a sweep
MaxGridLen == 2

\* the instances constructed: supported and unsupported rotor-group counts
Instances ==
    {ConventionalRotorcraft(6, 4), ConventionalRotorcraft(2, 2),
     CoaxialRotorcraft(8, 4), CoaxialRotorcraft(2, 4),
     TiltRotorcraft(6, 4, 4)}

\* instances of every rotor-group count with a diameter rule (1, 4, 6 and 8),
\* conventional and coaxial, and tilt-rotors of several tilting shares, none
\* tilting included
VariantInstances ==
    {ConventionalRotorcraft(1, 4), ConventionalRotorcraft(4, 4), ConventionalRotorcraft(6, 4),
     ConventionalRotorcraft(8, 4),
     CoaxialRotorcraft(2, 4), CoaxialRotorcraft(8, 4), CoaxialRotorcraft(12, 4),
     CoaxialRotorcraft(16, 4),
     TiltRotorcraft(6, 4, 4), TiltRotorcraft(8, 4, 4), TiltRotorcraft(4, 2, 4),
     TiltRotorcraft(6, 6, 4)}

\* max_diameter: the diameter of the six-rotor conventional at 20 kg
MaxDiameters == {Norm[3916, 0 - 3]}

\* forward_flight_speed: the default, and the maximum forward velocity of the
\* tilt-rotor at 10 kg
ForwardFlightSpeeds == {FromInt[30], Norm[349, 0 - 1]}

\* design masses handed to calc_and_verify_initial_design
DesignMasses == {FromInt[5], FromInt[10], FromInt[20], FromInt[30], FromInt[60]}

\* design masses of the explicit sweep grids
GridMasses == {FromInt[5], FromInt[30]}

Grids == UNION {[1..n -> GridMasses] : n \in 0..MaxGridLen}

\* battery masses handed to calc_energy_from_battery_mass
BatteryMasses == {FromInt[1], Norm[25, 0 - 2], Norm[3837, 0 - 3], FromInt[10]}

\* settings of DesignAssumptions.BATTERY_DENSITY, USABLE_BATTERY_PERC and
\* BATTERY_CONTINGENCY: the defaults and others
BatteryDensities == {Norm[2185, 0 - 1], FromInt[150]}

UsableBatteryPercs == {Norm[7, 0 - 1], Norm[9, 0 - 1]}

BatteryContingencies == {Norm[12, 0 - 1], FromInt[1], Norm[15, 0 - 1]}

\* min_payload: the caller's integer 2, zero, and a value that is not an integer
MinPayloads == {FromInt[0], FromInt[2], Norm[5, 0 - 1]}

(***************************************************************************)
(* The state machine: construction, then any sequence of public calls      *)
(***************************************************************************)
Init ==
    /\ rotorcraft \in Instances
    /\ \E forward_flight_speed \in ForwardFlightSpeeds :
           mission_scenario = FlightMissionScenario(forward_flight_speed)
    /\ \E max_diameter \in MaxDiameters :
           design_constraints = DesignConstraints(FromInt[50], max_diameter)
    /\ design_assumptions = DesignAssumptions
    /\ last = [op |-> "__init__", args |-> <<>>, exc |-> "none", msg |-> "", ret |-> <<>>]
    /\ calls = <<>>
    /\ instances = <<>>
    /\ threads = <<>>

CalcAndVerifyInitialDesign(design_mass) ==
    \E r \in {calc_and_verify_initial_design(rotorcraft, design_mass)} :
        /\ rotorcraft' = r.self
        /\ last' = [op |-> "calc_and_verify_initial_design", args |-> <<design_mass>>,
                    exc |-> r.exc, msg |-> r.msg, ret |-> r.ret]
        /\ calls' = <<EvalCall(design_mass, r)>>
        /\ UNCHANGED <<mission_scenario, design_constraints, design_assumptions, instances, threads>>

PayloadEfficiencyAnalysis(design_masses) ==
    \E r \in {payload_efficiency_analysis(rotorcraft, design_masses)} :
        /\ rotorcraft' = r.self
        /\ last' = [op |-> "payload_efficiency_analysis", args |-> <<design_masses>>,
                    exc |-> r.exc, msg |-> r.msg, ret |-> r.ret]
        /\ calls' = r.calls
        /\ UNCHANGED <<mission_scenario, design_constraints, design_assumptions, instances, threads>>

NumberOfBladesAnalysis(design_masses) ==
    \E r \in {number_of_blades_analysis(rotorcraft, design_masses)} :
        /\ rotorcraft' = r.self
        /\ last' = [op |-> "number_of_blades_analysis", args |-> <<design_masses>>,
                    exc |-> r.exc, msg |-> r.msg, ret |-> r.ret]
        /\ calls' = r.calls
        /\ UNCHANGED <<mission_scenario, design_constraints, design_assumptions, instances, threads>>

TradePayloadForBattery(design_mass, min_payload) ==
    \E r \in {trade_payload_for_battery(rotorcraft, design_mass, min_payload)} :
        /\ rotorcraft' = r.self
        /\ last' = [op |-> "trade_payload_for_battery", args |-> <<design_mass, min_payload>>,
                    exc |-> r.exc, msg |-> r.msg, ret |-> r.ret]
        /\ calls' = r.calls
        /\ UNCHANGED <<mission_scenario, design_constraints, design_assumptions, instances, threads>>

Next ==
    \/ \E design_mass \in {<<d>> : d \in DesignMasses} \cup {None} : CalcAndVerifyInitialDesign(design_mass)
    \/ \E design_masses \in {<<g>> : g \in Grids} \cup {None} : PayloadEfficiencyAnalysis(design_masses)
    \/ \E design_masses \in {<<g>> : g \in Grids} \cup {None} : NumberOfBladesAnalysis(design_masses)
    \/ \E design_mass \in {<<d>> : d \in DesignMasses}, min_payload \in MinPayloads :
           TradePayloadForBattery(design_mass, min_payload)

Spec == Init /\ [][Next]_vars

(***************************************************************************)
(* The battery conversions: an instance whose DesignAssumptions carry any  *)
(* battery setting, evaluated and then asked to convert battery masses to  *)
(* energies and energies to masses                                         *)
(***************************************************************************)
InitBattery ==
    /\ rotorcraft \in {CoaxialRotorcraft(8, 4), CoaxialRotorcraft(2, 4)}
    /\ mission_scenario = FlightMissionScenario(FromInt[30])
    /\ design_constraints = DesignConstraints(FromInt[50], Norm[3916, 0 - 3])
    /\ \E density \in BatteryDensities, usable \in UsableBatteryPercs,
          contingency \in BatteryContingencies :
           design_assumptions = [DesignAssumptions EXCEPT !.BATTERY_DENSITY = density,
                                                          !.USABLE_BATTERY_PERC = usable,
                                                          !.BATTERY_CONTINGENCY = contingency]
    /\ last = [op |-> "__init__", args |-> <<>>, exc |-> "none", msg |-> "", ret |-> <<>>]
    /\ calls = <<>>
    /\ instances = <<>>
    /\ threads = <<>>

CalcEnergyFromBatteryMass(battery_mass) ==
    /\ last' = [op |-> "calc_energy_from_battery_mass", args |-> <<battery_mass>>,
                exc |-> "none", msg |-> "",
                ret |-> <<calc_energy_from_battery_mass(rotorcraft, battery_mass)>>]
    /\ calls' = <<>>
    /\ UNCHANGED <<rotorcraft, mission_scenario, design_constraints, design_assumptions,
                 instances, threads>>

CalcEmptyMass(torque, energy) ==
    \E r \in {calc_empty_mass(rotorcraft, torque, energy)} :
        /\ rotorcraft' = r.self
        /\ last' = [op |-> "calc_empty_mass", args |-> <<torque, energy>>,
                    exc |-> "none", msg |-> "", ret |-> <<r.ret>>]
        /\ calls' = <<>>
        /\ UNCHANGED <<mission_scenario, design_constraints, design_assumptions, instances, threads>>

\* calc_empty_mass is handed the torque of the evaluated instance and an energy
\* calc_energy_from_battery_mass returned, as it is or multiplied by
\* BATTERY_CONTINGENCY as calc_energy_per_sol multiplies the mission energy
NextBattery ==
    \/ \E design_mass \in {<<FromInt[30]>>} : CalcAndVerifyInitialDesign(design_mass)
    \/ \E battery_mass \in BatteryMasses : CalcEnergyFromBatteryMass(battery_mass)
    \/ \E torque \in {rotorcraft[f] : f \in {"_torque"} \cap DOMAIN rotorcraft},
          energy \in {e \in {last.ret[k] : k \in DOMAIN last.ret} \cup
                             {FMul[da.BATTERY_CONTINGENCY, last.ret[k]] : k \in DOMAIN last.ret} :
                         last.op = "calc_energy_from_battery_mass"} :
           CalcEmptyMass(torque, energy)

SpecBattery == InitBattery /\ [][NextBattery]_vars

(***************************************************************************)
(* The variants: calc_and_verify_initial_design on instances of every      *)
(* class and rotor count                                                   *)
(***************************************************************************)
InitVariants ==
    /\ rotorcraft \in VariantInstances
    /\ mission_scenario = FlightMissionScenario(FromInt[30])
    /\ \E max_diameter \in MaxDiameters :
           design_constraints = DesignConstraints(FromInt[50], max_diameter)
    /\ design_assumptions = DesignAssumptions
    /\ last = [op |-> "__init__", args |-> <<>>, exc |-> "none", msg |-> "", ret |-> <<>>]
    /\ calls = <<>>
    /\ instances = <<>>
    /\ threads = <<>>

NextVariants ==
    \E design_mass \in {<<d>> : d \in DesignMasses} \cup {None} :
        CalcAndVerifyInitialDesign(design_mass)

SpecVariants == InitVariants /\ [][NextVariants]_vars

(***************************************************************************)
(* The design_mass argument: omitted, the mass limit itself, zero, another *)
(***************************************************************************)
\* design masses a caller passes explicitly, a zero among them
GivenDesignMasses == {FromInt[0], FromInt[5], FromInt[20], FromInt[30], FromInt[50]}

InitDesignMass ==
    /\ rotorcraft \in VariantInstances
    /\ mission_scenario = FlightMissionScenario(FromInt[30])
    /\ design_constraints = DesignConstraints(FromInt[50], Norm[435, 0 - 2])
    /\ design_assumptions = DesignAssumptions
    /\ last = [op |-> "__init__", args |-> <<>>, exc |-> "none", msg |-> "", ret |-> <<>>]
    /\ calls = <<>>
    /\ instances = <<>>
    /\ threads = <<>>

NextDesignMass ==
    \E design_mass \in {<<d>> : d \in GivenDesignMasses} \cup {None} :
        CalcAndVerifyInitialDesign(design_mass)

SpecDesignMass == InitDesignMass /\ [][NextDesignMass]_vars

(***************************************************************************)
(* The summary: evaluations under an aeroshell wide enough for every       *)
(* class to return a payload, and get_csv_summary after any of them        *)
(***************************************************************************)
InitSummary ==
    /\ rotorcraft \in VariantInstances
    /\ mission_scenario = FlightMissionScenario(FromInt[30])
    /\ design_constraints = DesignConstraints(FromInt[50], FromInt[10])
    /\ design_assumptions = DesignAssumptions
    /\ last = [op |-> "__init__", args |-> <<>>, exc |-> "none", msg |-> "", ret |-> <<>>]
    /\ calls = <<>>
    /\ instances = <<>>
    /\ threads = <<>>

GetCsvSummary ==
    \E r \in {get_csv_summary(rotorcraft)} :
        /\ rotorcraft' = r.self
        /\ last' = [op |-> "get_csv_summary", args |-> <<>>,
                    exc |-> r.exc, msg |-> r.msg, ret |-> r.ret]
        /\ calls' = <<>>
        /\ UNCHANGED <<mission_scenario, design_constraints, design_assumptions, instances, threads>>

NextSummary ==
    \/ \E design_mass \in {<<d>> : d \in DesignMasses} :
           CalcAndVerifyInitialDesign(design_mass)
    \/ GetCsvSummary

SpecSummary == InitSummary /\ [][NextSummary]_vars

(***************************************************************************)
(* Threads: public calls run statement by statement, so that the calls of  *)
(* two threads interleave between any two statements                       *)
(***************************************************************************)
\* the statement ran to its end and the call goes on at line pc
Continue(self, pc) ==
    [self |-> self, pc |-> pc, ended |-> FALSE, exc |-> "none", msg |-> "", ret |-> <<>>]

\* the statement at line pc raised or returned: r is the outcome of the call
Ended(r, pc) ==
    [self |-> r.self, pc |-> pc, ended |-> TRUE, exc |-> r.exc, msg |-> r.msg, ret |-> r.ret]

\* the statement of calc_and_verify_initial_design at source line pc, run on self as
\* the instance is at that moment
statement(self, design_mass, pc) ==
    CASE pc = 37 -> Continue(set_design_mass(self, design_mass), 40)
      [] pc = 40 -> Continue(set_max_thrust(self), 43)
      [] pc = 43 -> Continue(set_rotor_radius(self), 46)
      [] pc = 46 -> IF check_diameter(self) = "TypeError"
                    THEN Ended(Raise(self, "TypeError",
                               "'>' not supported between instances of 'NoneType' and 'float'"),
                               46)
                    ELSE IF check_diameter(self) = "ValueError"
                    THEN Ended(Raise(self, "ValueError", MsgDiameter), 47)
                    ELSE Continue(self, 49)
      [] pc = 49 -> Continue(set_max_thrust_power(self), 52)
      [] pc = 52 -> Continue(set_torque(self), 55)
      [] pc = 55 -> IF check_forward_velocity(self) = "ValueError"
                    THEN Ended(Raise(read_max_thrust_per_rotor(self), "ValueError", MsgSpeed),
                               56)
                    ELSE Continue(read_max_thrust_per_rotor(self), 59)
      [] pc = 59 -> Continue(set_energy_per_sol(self), 61)
      [] pc = 61 -> Continue(set_empty_mass(self), 64)
      [] pc = 64 -> Continue(set_payload(self), 66)
      [] pc = 66 -> IF check_payload(self) = "ValueError"
                    THEN Ended(Raise(self, "ValueError", MsgPayload), 67)
                    ELSE Continue(self, 68)
      [] pc = 68 -> Ended(Return(self, self["_payload"]), 68)

\* the Design Evaluation State attributes the statement at line pc reads before
\* it writes anything, the log line ahead of it and the properties it goes
\* through included: hover_power, f_flight_power, max_forward_velocity and
\* max_thrust_per_rotor read _max_thrust and _rotor_radius, motor_rpm_hover,
\* rotor_area, disk_area and total_diameter read _rotor_radius,
\* total_available_mass reads _design_mass
reads(pc) ==
    CASE pc = 37 -> {}
      [] pc = 40 -> {"_design_mass"}
      [] pc = 43 -> {"_max_thrust"}
      [] pc = 46 -> {"_rotor_radius"}
      [] pc = 49 -> {"_max_thrust", "_rotor_radius"}
      [] pc = 52 -> {"_max_thrust_power", "_rotor_radius", "_max_thrust"}
      [] pc = 55 -> {"_torque", "_max_thrust", "_rotor_radius"}
      [] pc = 59 -> {"_max_thrust", "_rotor_radius", "_design_mass"}
      [] pc = 61 -> {"_energy_per_sol", "_torque", "_rotor_radius", "_design_mass"}
      [] pc = 64 -> {"_empty_mass", "_design_mass"}
      [] pc = 66 -> {"_payload"}
      [] pc = 68 -> {"_payload"}

\* a thread about to make the public call op on the instance numbered self;
\* payloads and valid_design_masses are the locals of payload_efficiency_analysis,
\* interleaved records that the thread ran a statement while another was inside its call
Thread(op, self, design_masses) ==
    [op |-> op, self |-> self, design_masses |-> design_masses, i |-> 1, pc |-> 37,
     done |-> FALSE, interleaved |-> FALSE, calls |-> <<>>,
     payloads |-> <<>>, valid_design_masses |-> <<>>,
     exc |-> "none", msg |-> "", ret |-> <<>>]

\* the thread is inside its public call
running(th) == ~th.done /\ (th.pc # 37 \/ th.i > 1)

\* an assignment to self.<attribute> changes the instance self is bound to, no other
write_back_sharing_design_mass(all, id, self) ==
    [j \in DOMAIN all |->
        IF j = id THEN self
        ELSE IF "_design_mass" \in DOMAIN self
        THEN SetAttr(all[j], "_design_mass", self["_design_mass"])
        ELSE all[j]]

write_back(all, id, self) == [all EXCEPT ![id] = self]

\* the thread after the statement with result s: a calc_and_verify_initial_design
\* thread ends with the call; a payload_efficiency_analysis thread appends to its
\* lists, swallows a ValueError, moves to the next design mass and returns after the last
after_statement(th, s) ==
    IF ~s.ended THEN [th EXCEPT !.pc = s.pc]
    ELSE
    Let(Append(th.calls, EvalCall(<<th.design_masses[th.i]>>, s)), LAMBDA log :
        IF th.op = "calc_and_verify_initial_design" \/ s.exc \notin {"none", "ValueError"}
        THEN [th EXCEPT !.pc = s.pc, !.done = TRUE, !.calls = log,
                        !.exc = s.exc, !.msg = s.msg, !.ret = s.ret]
        ELSE
    Let(IF s.exc = "none" THEN Append(th.payloads, s.ret[1]) ELSE th.payloads,
        LAMBDA payloads :
    Let(IF s.exc = "none" THEN Append(th.valid_design_masses, th.design_masses[th.i])
        ELSE th.valid_design_masses,
        LAMBDA valid_design_masses :
        IF th.i < Len(th.design_masses)
        THEN [th EXCEPT !.pc = 37, !.i = th.i + 1, !.calls = log, !.payloads = payloads,
                        !.valid_design_masses = valid_design_masses]
        ELSE [th EXCEPT !.pc = 84, !.done = TRUE, !.calls = log, !.payloads = payloads,
                        !.valid_design_masses = valid_design_masses,
                        !.ret = <<valid_design_masses,
                                  ZipDivide(payloads, valid_design_masses)>>])))

\* the design masses two threads evaluate: two that succeed and one that does not fit
ThreadMasses == {FromInt[20], FromInt[30], FromInt[60]}

\* the grids two threads sweep
ThreadGrids == {<<FromInt[5], FromInt[30]>>, <<FromInt[30], FromInt[60]>>}

\* what a thread may be asked to do
ThreadJobs ==
    {[op |-> "calc_and_verify_initial_design", design_masses |-> <<d>>] : d \in ThreadMasses}
    \cup {[op |-> "payload_efficiency_analysis", design_masses |-> g] : g \in ThreadGrids}

\* instances, one of each class, built over the one scenario, constraints and
\* assumptions
ThreadInstances ==
    <<CoaxialRotorcraft(8, 4), ConventionalRotorcraft(6, 4), TiltRotorcraft(6, 4, 4)>>

\* either both threads call calc_and_verify_initial_design on the one instance with
\* different design masses, or each thread has an instance of its own
InitThreads ==
    /\ mission_scenario = FlightMissionScenario(FromInt[30])
    /\ \E max_diameter \in MaxDiameters :
           design_constraints = DesignConstraints(FromInt[50], max_diameter)
    /\ design_assumptions = DesignAssumptions
    /\ last = [op |-> "__init__", args |-> <<>>, exc |-> "none", msg |-> "", ret |-> <<>>]
    /\ calls = <<>>
    /\ rotorcraft = ThreadInstances[1]
    /\ \/ /\ instances \in {<<ThreadInstances[k]>> : k \in DOMAIN ThreadInstances}
          /\ \E a \in ThreadMasses, b \in ThreadMasses :
                /\ FLt[a, b]
                /\ threads = <<Thread("calc_and_verify_initial_design", 1, <<a>>),
                               Thread("calc_and_verify_initial_design", 1, <<b>>)>>
       \/ /\ instances \in {<<ThreadInstances[1], ThreadInstances[2]>>,
                           <<ThreadInstances[3], ThreadInstances[1]>>}
          /\ \E a \in ThreadJobs, b \in ThreadJobs :
                threads = <<Thread(a.op, 1, a.design_masses),
                            Thread(b.op, 2, b.design_masses)>>

\* thread t runs its next statement
Step(t) ==
    /\ ~threads[t].done
    /\ \E th \in {threads[t]} :
       \E s \in {statement(instances[th.self], <<th.design_masses[th.i]>>, th.pc)} :
           /\ instances' = write_back(instances, th.self, s.self)
           /\ threads' =
                  [threads EXCEPT ![t] =
                      [after_statement(th, s) EXCEPT !.interleaved =
                          th.interleaved
                          \/ \E u \in DOMAIN threads \ {t} : running(threads[u])]]
           /\ UNCHANGED <<rotorcraft, mission_scenario, design_constraints,
                          design_assumptions, last, calls>>

NextThreads == \E t \in DOMAIN threads : Step(t)

SpecThreads == InitThreads /\ [][NextThreads]_vars

(***************************************************************************)
(* Properties                                                              *)
(***************************************************************************)
\* C1: whenever calc_and_verify_initial_design succeeds, the payload it returns
\* is the total available mass minus the empty mass of that call, nothing else
\* added or taken away, and the same value is the instance's _payload.
C1_PayloadIsAvailableMinusEmpty ==
    \A i \in DOMAIN calls :
        calls[i].exc = "none" =>
            LET self == calls[i].self
            IN  /\ self["_total_available_mass"] = total_available_mass(self)
                /\ calls[i].ret = <<FSub[self["_total_available_mass"], self["_empty_mass"]]>>
                /\ self["_payload"] = calls[i].ret[1]

C1_Witness ==
    \E i \in DOMAIN calls : calls[i].exc = "none" /\ calls[i].ret[1].m > 0

\* C2: after any calc_and_verify_initial_design call, successful or failed,
\* every attribute the instance holds has the value that call computed: the
\* value the same call gives on a newly constructed instance of the same
\* configuration; no attribute keeps the value of an earlier call.
C2_FieldsReflectMostRecentCall ==
    [][last'.op = "calc_and_verify_initial_design" =>
          LET constructed ==
                  [f \in (DOMAIN rotorcraft) \cap
                         {"__class__", "_no_rotors", "_no_blades",
                          "_no_nonoverlapping_rotors", "_no_nontilt_rotors"} |-> rotorcraft[f]]
              computed == calc_and_verify_initial_design(constructed, last'.args[1]).self
          IN  \A f \in DOMAIN rotorcraft' :
                  f \in DOMAIN computed /\ rotorcraft'[f] = computed[f]]_vars

\* C3: for every configuration and design mass, calc_and_verify_initial_design
\* either returns a payload or fails with one of the three feasibility
\* failures (diameter, cruise speed, negative payload), never with another fault.
C3_OnlyFeasibilityFailures ==
    \A i \in DOMAIN calls :
        \/ calls[i].exc = "none" /\ Len(calls[i].ret) = 1
        \/ calls[i].exc = "ValueError" /\ calls[i].msg \in {MsgDiameter, MsgSpeed, MsgPayload}

\* C4: when payload_efficiency_analysis returns, its two series have the same
\* length, the number of grid points at which calc_and_verify_initial_design
\* succeeded; the valid design masses are exactly those grid points, in grid
\* order, and each efficiency is the payload returned for that point divided by
\* its design mass; a failing point appears in neither series.
C4_EfficiencySeriesAreTheFeasiblePoints ==
    (last.op = "payload_efficiency_analysis" /\ last.exc = "none") =>
        LET grid == IF last.args[1] = None THEN DefaultDesignMasses ELSE last.args[1][1]
            feasible == SelectSeq(calls, LAMBDA c : c.exc = "none")
            valid_design_masses == last.ret[1]
            payload_efficiencies == last.ret[2]
        IN  /\ Len(calls) = Len(grid)
            /\ \A i \in DOMAIN grid : calls[i].design_mass = <<grid[i]>>
            /\ Len(valid_design_masses) = Len(feasible)
            /\ Len(payload_efficiencies) = Len(feasible)
            /\ \A k \in DOMAIN feasible :
                   /\ valid_design_masses[k] = feasible[k].design_mass[1]
                   /\ payload_efficiencies[k] = FDiv[feasible[k].ret[1], valid_design_masses[k]]

C4_Witness ==
    /\ last.op = "payload_efficiency_analysis"
    /\ last.exc = "none"
    /\ Len(last.ret[1]) > 0
    /\ Len(last.ret[1]) < Len(calls)

\* C5: a sweep (payload_efficiency_analysis, number_of_blades_analysis) is never
\* aborted by a failing grid point: every grid point is evaluated exactly once,
\* in grid order, and the routine returns normally.
C5_SweepNeverAborts ==
    last.op \in {"payload_efficiency_analysis", "number_of_blades_analysis"} =>
        LET grid == IF last.args[1] = None THEN DefaultDesignMasses ELSE last.args[1][1]
        IN  /\ last.exc = "none"
            /\ Len(calls) = Len(grid)
            /\ \A i \in DOMAIN grid : calls[i].design_mass = <<grid[i]>>

\* C6: calc_and_verify_initial_design fails with the diameter failure exactly
\* when the total diameter derived from the rotor radius of that call is
\* strictly greater than MAX_DIAMETER (an equal diameter passes); the failure
\* is a ValueError, and it leaves every attribute of power, torque, energy and
\* mass as it was before the call: none of them is computed.
C6_DiameterFailureIffStrictlyGreater ==
    [][\A i \in DOMAIN calls' :
          LET c == calls'[i]
              before == IF i = 1 THEN rotorcraft ELSE calls'[i - 1].self
              diameter == total_diameter(c.self)
              later == {"_max_thrust_power", "_motor_power_spec", "_torque",
                        "_energy_per_sol", "_flight_energy", "_ground_mobility_energy",
                        "_sampling_mechanism_energy", "_sleep_energy", "_empty_mass",
                        "_motor_mass", "_battery_mass", "_solar_panel_mass", "_rotor_mass",
                        "_structure_mass", "_ground_mobility_mass",
                        "_flight_electronics_mass", "_total_available_mass", "_payload"}
          IN  /\ c.msg = MsgDiameter <=>
                     (diameter # <<>> /\ FSub[diameter[1], dc.MAX_DIAMETER].m > 0)
              /\ c.msg = MsgDiameter =>
                     /\ c.exc = "ValueError"
                     /\ \A f \in later :
                            /\ f \in DOMAIN c.self <=> f \in DOMAIN before
                            /\ f \in DOMAIN before => c.self[f] = before[f]]_vars

C6_Witness ==
    \E i, j \in DOMAIN calls :
        /\ calls[i].msg = MsgDiameter
        /\ "_payload" \in DOMAIN calls[i].self
        /\ calls[j].exc = "none"
        /\ total_diameter(calls[j].self) = <<dc.MAX_DIAMETER>>

\* C7: calc_and_verify_initial_design fails with the cruise-speed failure
\* exactly when the diameter check passed and the maximum forward velocity
\* (advancing-tip speed limit minus forward-flight tip speed) is strictly less
\* than FORWARD_FLIGHT_SPEED; an equal velocity passes.
C7_SpeedFailureIffStrictlyLess ==
    \A i \in DOMAIN calls :
        LET c == calls[i]
            diameter == total_diameter(c.self)
        IN  c.msg = MsgSpeed <=>
                /\ diameter # <<>>
                /\ FSub[diameter[1], dc.MAX_DIAMETER].m <= 0
                /\ FSub[FSub[ADVANCING_TIP_SPEED_LIMIT(dc), f_flight_tip_speed(c.self)],
                        mission_scenario.FORWARD_FLIGHT_SPEED].m < 0

C7_Witness ==
    \E i \in DOMAIN calls : calls[i].msg = MsgSpeed /\ calls[i].exc = "ValueError"

\* C8: calc_and_verify_initial_design fails with the negative-payload failure
\* exactly when the diameter and cruise-speed checks passed and the payload
\* computed is strictly below 0; every payload returned is at least 0, and a
\* payload of exactly 0 is returned.
C8_PayloadFailureIffNegative ==
    \A i \in DOMAIN calls :
        LET c == calls[i]
            diameter == total_diameter(c.self)
        IN  /\ c.msg = MsgPayload <=>
                   /\ diameter # <<>>
                   /\ FSub[diameter[1], dc.MAX_DIAMETER].m <= 0
                   /\ FSub[max_forward_velocity(c.self),
                           mission_scenario.FORWARD_FLIGHT_SPEED].m >= 0
                   /\ c.self["_payload"].m < 0
            /\ c.exc = "none" => c.ret = <<c.self["_payload"]>> /\ c.ret[1].m >= 0

C8_Witness ==
    \E i, j \in DOMAIN calls :
        /\ calls[i].msg = MsgPayload
        /\ calls[j].exc = "none"
        /\ calls[j].ret[1].m = 0

\* C9: the three feasibility failures are three distinguishable kinds of
\* failure: two failed calls that failed on different conditions raise
\* exceptions of different kinds.
C9_FailureKindsDistinguishable ==
    \A i, j \in DOMAIN calls :
        (/\ calls[i].msg \in {MsgDiameter, MsgSpeed, MsgPayload}
         /\ calls[j].msg \in {MsgDiameter, MsgSpeed, MsgPayload}
         /\ calls[i].msg # calls[j].msg) => calls[i].exc # calls[j].exc

\* C10: a calc_and_verify_initial_design call that fails with a feasibility
\* failure leaves no payload defined: it returns none, and afterwards the
\* instance holds no _payload, neither a negative one nor an earlier call's.
C10_FailureLeavesNoPayload ==
    \A i \in DOMAIN calls :
        calls[i].msg \in {MsgDiameter, MsgSpeed, MsgPayload} =>
            /\ calls[i].ret = <<>>
            /\ "_payload" \notin DOMAIN calls[i].self

\* C11: for an unchanged configuration, every calc_and_verify_initial_design
\* call has the outcome (the payload returned, or the failure raised) that the
\* same design mass gives on a newly constructed instance, whatever calls,
\* successful or failed, the instance served before; so the same design mass
\* twice in a row gives the same output.
C11_OutcomeIndependentOfHistory ==
    [][\A i \in DOMAIN calls' :
          LET constructed ==
                  [f \in (DOMAIN rotorcraft) \cap
                         {"__class__", "_no_rotors", "_no_blades",
                          "_no_nonoverlapping_rotors", "_no_nontilt_rotors"} |-> rotorcraft[f]]
          IN  \A alone \in {calc_and_verify_initial_design(constructed, calls'[i].design_mass)} :
                  /\ calls'[i].exc = alone.exc
                  /\ calls'[i].msg = alone.msg
                  /\ calls'[i].ret = alone.ret]_vars

C11_Witness ==
    \E i \in DOMAIN calls :
        /\ i > 1
        /\ calls[i - 1].exc = "ValueError"
        /\ calls[i].exc = "none"
        /\ calls[i].design_mass # calls[i - 1].design_mass

\* C14: after any calc_and_verify_initial_design call, successful or failed,
\* the instance's total_available_mass is the design mass of that call (the
\* argument, MASS_LIMIT when it is omitted) times (1 - CONTINGENCY_WEIGHT_FACTOR);
\* a call that computes a payload stores that same value as _total_available_mass.
C14_AvailableMassIsDesignMassLessContingency ==
    \A i \in DOMAIN calls :
        LET c == calls[i]
            design_mass == IF c.design_mass = None \/ c.design_mass[1].m = 0
                           THEN dc.MASS_LIMIT ELSE c.design_mass[1]
            available == FMul[design_mass, FSub[FromInt[1], dc.CONTINGENCY_WEIGHT_FACTOR]]
        IN  /\ total_available_mass(c.self) = available
            /\ (c.exc = "none" \/ c.msg = MsgPayload) =>
                   c.self["_total_available_mass"] = available

C14_Witness ==
    \E i, j \in DOMAIN calls :
        /\ calls[i].exc = "none"
        /\ calls[i].design_mass = <<FromInt[30]>>
        /\ calls[i].self["_total_available_mass"] = FromInt[24]
        /\ calls[j].msg = MsgDiameter
        /\ calls[j].design_mass = <<FromInt[50]>>
        /\ total_available_mass(calls[j].self) = FromInt[40]

\* C15: when trade_payload_for_battery returns, its payload levels are every
\* integer p with min_payload <= p <= max_payload, in ascending order, followed
\* by the maximum payload itself (the payload calc_and_verify_initial_design
\* returned, an integer or not); every level lies between min_payload and the
\* maximum payload inclusive.
C15_LevelsAreTheIntegersFromMinToMax ==
    (last.op = "trade_payload_for_battery" /\ last.exc = "none") =>
        LET min_payload == last.args[2]
            max_payload == calls[1].ret[1]
            valid_payloads == last.ret[1]
            n == Len(valid_payloads)
            integers == {p \in (0 - 1)..60 : /\ ~FLt[FromInt[p], min_payload]
                                             /\ ~FGt[FromInt[p], max_payload]}
        IN  /\ n = Cardinality(integers) + 1
            /\ valid_payloads[n] = max_payload
            /\ {valid_payloads[k] : k \in 1..(n - 1)} = {FromInt[p] : p \in integers}
            /\ \A k \in 1..(n - 2) : FLt[valid_payloads[k], valid_payloads[k + 1]]
            /\ \A k \in 1..n : /\ ~FLt[valid_payloads[k], min_payload]
                                /\ ~FGt[valid_payloads[k], max_payload]

\* C16: when trade_payload_for_battery returns, it has called
\* calc_and_verify_initial_design once, with its design mass; its three series
\* have the same length, and at each index, for the payload level p there, the
\* battery mass is _battery_mass + (max_payload - p), the energy is that mass
\* * BATTERY_DENSITY * 60 * 60 * USABLE_BATTERY_PERC / BATTERY_CONTINGENCY, the
\* hover time is energy / hover_power and the distance is energy / f_flight_power
\* * FORWARD_FLIGHT_SPEED, with the attributes that one call left.
C16_SeriesFollowFromTheSingleEvaluation ==
    (last.op = "trade_payload_for_battery" /\ last.exc = "none") =>
        /\ Len(calls) = 1
        /\ calls[1].design_mass = last.args[1]
        /\ calls[1].self = rotorcraft
        /\ Len(last.ret[2]) = Len(last.ret[1])
        /\ Len(last.ret[3]) = Len(last.ret[1])
        /\ \A hover \in {hover_power(rotorcraft)}, f_flight \in {f_flight_power(rotorcraft)} :
               \A i \in DOMAIN last.ret[1] :
                   LET p == last.ret[1][i]
                       battery_mass ==
                           FAdd[rotorcraft["_battery_mass"], FSub[calls[1].ret[1], p]]
                       energy ==
                           FDiv[FMul[FMul[FMul[FMul[battery_mass, da.BATTERY_DENSITY], FromInt[60]],
                                          FromInt[60]],
                                     da.USABLE_BATTERY_PERC], da.BATTERY_CONTINGENCY]
                   IN  /\ last.ret[2][i] = FDiv[energy, hover]
                       /\ last.ret[3][i] =
                              FMul[FDiv[energy, f_flight], mission_scenario.FORWARD_FLIGHT_SPEED]

C16_Witness ==
    /\ last.op = "trade_payload_for_battery"
    /\ last.exc = "none"
    /\ Len(last.ret[1]) >= 3
    /\ FGt[last.ret[2][1], last.ret[2][Len(last.ret[2])]]
    /\ FGt[last.ret[3][1], last.ret[3][Len(last.ret[3])]]

\* a equals b up to the rounding of a chain of float operations: |a - b| <= |b| / 100
WithinTolerance(a, b) ==
    LET d == FSub[a, b]
    IN  ~FGt[FMul[FromInt[100], [m |-> Abs(d.m), e |-> d.e]], [m |-> Abs(b.m), e |-> b.e]]

\* C17 as claimed: for every battery mass m and every battery setting, the
\* energy calc_energy_from_battery_mass(m), handed to calc_empty_mass, gives back
\* m as _battery_mass, up to rounding.
C17_RoundTripRecoversMass ==
    [][(/\ last.op = "calc_energy_from_battery_mass"
        /\ last'.op = "calc_empty_mass"
        /\ last'.args[2] = last.ret[1]) =>
           WithinTolerance(rotorcraft'["_battery_mass"], last.args[1])]_vars

\* C17 amended: the energy calc_energy_from_battery_mass(m), handed to
\* calc_empty_mass, gives back m / BATTERY_CONTINGENCY as _battery_mass, up to
\* rounding; it gives back m when it is first multiplied by BATTERY_CONTINGENCY,
\* as calc_energy_per_sol multiplies the mission energy.
C17_RoundTripRecoversMassOverContingency ==
    [][(/\ last.op = "calc_energy_from_battery_mass"
        /\ last'.op = "calc_empty_mass") =>
           /\ last'.args[2] = last.ret[1] =>
                  WithinTolerance(rotorcraft'["_battery_mass"],
                                  FDiv[last.args[1], da.BATTERY_CONTINGENCY])
           /\ last'.args[2] = FMul[da.BATTERY_CONTINGENCY, last.ret[1]] =>
                  WithinTolerance(rotorcraft'["_battery_mass"], last.args[1])]_vars

C17_Witness ==
    /\ last.op = "calc_empty_mass"
    /\ da.BATTERY_CONTINGENCY = Norm[12, 0 - 1]
    /\ last.args[2] = calc_energy_from_battery_mass(rotorcraft, FromInt[10])
    /\ WithinTolerance(rotorcraft["_battery_mass"], Norm[8333, 0 - 3])
    /\ ~WithinTolerance(rotorcraft["_battery_mass"], FromInt[10])

\* C18: calc_and_verify_initial_design, payload_efficiency_analysis and
\* trade_payload_for_battery leave the configuration as constructed: _no_rotors,
\* _no_blades, _no_nontilt_rotors and _no_nonoverlapping_rotors of the instance
\* (after the whole operation and after every calc_and_verify_initial_design
\* call it makes) and every field of the scenario, constraints and assumptions.
C18_ConfigurationUnchanged ==
    [][last'.op \in {"calc_and_verify_initial_design", "payload_efficiency_analysis",
                     "trade_payload_for_battery"} =>
          LET identity == {"__class__", "_no_rotors", "_no_blades", "_no_nontilt_rotors",
                           "_no_nonoverlapping_rotors"}
              Same(self) ==
                  \A f \in identity :
                      /\ f \in DOMAIN self <=> f \in DOMAIN rotorcraft
                      /\ f \in DOMAIN rotorcraft => self[f] = rotorcraft[f]
          IN  /\ Same(rotorcraft')
              /\ \A i \in DOMAIN calls' : Same(calls'[i].self)
              /\ mission_scenario' = mission_scenario
              /\ design_constraints' = design_constraints
              /\ design_assumptions' = design_assumptions]_vars

C18_Witness ==
    /\ last.op = "trade_payload_for_battery"
    /\ last.exc = "none"
    /\ rotorcraft["__class__"] = "CoaxialRotorcraft"
    /\ rotorcraft["_no_rotors"] = 8
    /\ rotorcraft["_no_nonoverlapping_rotors"] = FromInt[4]
    /\ "_payload" \in DOMAIN rotorcraft

\* C19: after a calc_and_verify_initial_design call, total_diameter follows from
\* the rotor radius r of the call by the number of non-overlapping rotor groups,
\* which is _no_rotors for ConventionalRotorcraft and TiltRotorcraft and
\* _no_rotors / 2 for CoaxialRotorcraft: 1 group gives 2 * r, 4 groups
\* (1 + sqrt(2)) * 2 * r, 6 groups 3 * r * 2 = 6 r, 8 groups 17/5 * r * 2 =
\* 3.4 * 2 r; so a coaxial of 8 rotors has the diameter of 4 groups and a
\* coaxial of 2 rotors that of a single rotor.
C19_DiameterRuleByRotorGroups ==
    \A i \in DOMAIN calls :
        LET self == calls[i].self
            r == self["_rotor_radius"]
            Groups(n) == IF self["__class__"] = "CoaxialRotorcraft"
                         THEN self["_no_rotors"] = 2 * n
                         ELSE self["_no_rotors"] = n
            diameter == total_diameter(self)
        IN  /\ Groups(1) => diameter = <<FMul[FromInt[2], r]>>
            /\ Groups(4) =>
                   diameter = <<FMul[FMul[FAdd[FromInt[1], FSqrt[FromInt[2]]], FromInt[2]], r]>>
            /\ Groups(6) => diameter = <<FMul[FMul[FromInt[3], r], FromInt[2]]>>
            /\ Groups(8) => diameter = <<FMul[FMul[Norm[34, 0 - 1], r], FromInt[2]]>>

C19_Witness ==
    \E i \in DOMAIN calls :
        /\ calls[i].self["__class__"] = "CoaxialRotorcraft"
        /\ calls[i].self["_no_rotors"] = 8
        /\ calls[i].exc = "none"
        /\ total_diameter(calls[i].self) =
               <<FMul[FMul[FAdd[FromInt[1], FSqrt[FromInt[2]]], FromInt[2]],
                      calls[i].self["_rotor_radius"]]>>

\* C20: the _max_thrust of a calc_and_verify_initial_design call is
\* HOVER_THRUST_CONDITION * design mass * GRAVITY * role multiplier, the design
\* mass being the full design mass of the call (not the mass available after
\* the contingency) and the role multiplier 1 for ConventionalRotorcraft and
\* CoaxialRotorcraft and _no_rotors / _no_nontilt_rotors for TiltRotorcraft.
C20_MaxThrustFromFullDesignMass ==
    \A i \in DOMAIN calls :
        LET self == calls[i].self
            design_mass == IF calls[i].design_mass = None THEN dc.MASS_LIMIT
                           ELSE calls[i].design_mass[1]
            role_multiplier ==
                IF self["__class__"] = "TiltRotorcraft"
                THEN FDiv[FromInt[self["_no_rotors"]], FromInt[self["_no_nontilt_rotors"]]]
                ELSE FromInt[1]
        IN  self["_max_thrust"] =
                FMul[FMul[FMul[dc.HOVER_THRUST_CONDITION, design_mass], GRAVITY],
                     role_multiplier]

C20_Witness ==
    \E i \in DOMAIN calls :
        /\ calls[i].self["__class__"] = "TiltRotorcraft"
        /\ calls[i].self["_no_rotors"] = 6
        /\ calls[i].self["_no_nontilt_rotors"] = 4
        /\ calls[i].design_mass = <<FromInt[20]>>
        /\ FGt[calls[i].self["_max_thrust"],
               FMul[FMul[dc.HOVER_THRUST_CONDITION, FromInt[20]], GRAVITY]]

\* the instance as its constructor left it
AsConstructed(self) ==
    [f \in (DOMAIN self) \cap {"__class__", "_no_rotors", "_no_blades",
                               "_no_nonoverlapping_rotors", "_no_nontilt_rotors"} |-> self[f]]

\* the public call of thread th made on self with no other thread running
Alone(self, th) ==
    IF th.op = "calc_and_verify_initial_design"
    THEN Let(calc_and_verify_initial_design(self, <<th.design_masses[1]>>), LAMBDA r :
             [self |-> r.self, calls |-> <<EvalCall(<<th.design_masses[1]>>, r)>>,
              exc |-> r.exc, msg |-> r.msg, ret |-> r.ret])
    ELSE payload_efficiency_analysis(self, <<th.design_masses>>)

\* C12: two calc_and_verify_initial_design calls with different design masses on
\* one instance are safe only when their steps do not interleave: if neither call
\* ran a statement while the other was inside the call, each has the outcome it has
\* when run alone and the instance is left as by the two calls one after the other.
\* An outcome that matches neither call run alone (C12_Witness) therefore needs,
\* and has, an interleaving.
C12_CallsThatDoNotInterleaveRunAsAlone ==
    \A t \in DOMAIN threads : \A u \in DOMAIN threads \ {t} :
        (/\ threads[t].self = threads[u].self
         /\ threads[t].done /\ threads[u].done
         /\ ~threads[t].interleaved /\ ~threads[u].interleaved)
        => \A constructed \in {AsConstructed(instances[threads[t].self])} :
           \A alone_t \in {Alone(constructed, threads[t])} :
           \A alone_u \in {Alone(constructed, threads[u])} :
               /\ threads[t].exc = alone_t.exc
               /\ threads[t].msg = alone_t.msg
               /\ threads[t].ret = alone_t.ret
               /\ instances[threads[t].self] \in
                      {Alone(alone_t.self, threads[u]).self,
                       Alone(alone_u.self, threads[t]).self}

\* two interleaved calls on one instance have both returned, and one returned a
\* payload that neither design mass gives when its call is run alone
C12_Witness ==
    \E t \in DOMAIN threads : \E u \in DOMAIN threads \ {t} :
        /\ threads[t].self = threads[u].self
        /\ threads[t].design_masses # threads[u].design_masses
        /\ threads[t].done /\ threads[u].done
        /\ threads[t].interleaved /\ threads[u].interleaved
        /\ threads[t].exc = "none"
        /\ \A constructed \in {AsConstructed(instances[threads[t].self])} :
               /\ Alone(constructed, threads[t]).exc = "none"
               /\ Alone(constructed, threads[u]).exc = "none"
               /\ threads[t].ret # Alone(constructed, threads[t]).ret
               /\ threads[t].ret # Alone(constructed, threads[u]).ret

\* C13: a thread that has an instance to itself ends its evaluation or sweep,
\* whatever the other thread did in between on its own instance built over the same
\* scenario, constraints and assumptions, with the outcome, the per-call outcomes
\* and the retained state of the same call run alone on the instance as constructed.
C13_DistinctInstancesRunAsAlone ==
    \A t \in DOMAIN threads :
        (/\ threads[t].done
         /\ \A u \in DOMAIN threads \ {t} : threads[u].self # threads[t].self)
        => \A alone \in {Alone(AsConstructed(instances[threads[t].self]), threads[t])} :
               /\ threads[t].exc = alone.exc
               /\ threads[t].msg = alone.msg
               /\ threads[t].ret = alone.ret
               /\ threads[t].calls = alone.calls
               /\ instances[threads[t].self] = alone.self

\* a sweep and an evaluation on two instances interleaved their statements and
\* both ended, the sweep having skipped a failed design mass and kept another
C13_Witness ==
    \E t \in DOMAIN threads : \E u \in DOMAIN threads \ {t} :
        /\ threads[t].self # threads[u].self
        /\ threads[t].done /\ threads[u].done
        /\ threads[t].interleaved /\ threads[u].interleaved
        /\ threads[t].op = "payload_efficiency_analysis"
        /\ Len(threads[t].calls) = 2
        /\ Len(threads[t].ret[1]) = 1
        /\ threads[u].op = "calc_and_verify_initial_design"
        /\ threads[u].exc = "none"

\* C21: every instance has the induced-power factors and servo fraction of its
\* class: 1.2 / 2.0 / 0 for ConventionalRotorcraft and, by inheritance,
\* TiltRotorcraft, 1.1 / 1.6 / 0.15 for CoaxialRotorcraft; its propulsive efficiency
\* is MOTOR_EFFICIENCY * (1 - servo fraction); and the steps the variants do not
\* override run as on a ConventionalRotorcraft of the same rotor and blade counts:
\* with a thrust multiplier of 1 the call writes the same design mass, maximum
\* thrust, thrust per rotor and rotor radius, and a tilt-rotor none of whose
\* rotors tilt also the same maximum thrust power, torque and motor power.
C21_VariantsDifferOnlyInTheTable ==
    \A i \in DOMAIN calls :
        LET self == calls[i].self
            coaxial == self["__class__"] = "CoaxialRotorcraft"
            tilt == self["__class__"] = "TiltRotorcraft"
            servo == IF coaxial THEN Norm[15, 0 - 2] ELSE FromInt[0]
        IN  /\ induced_power_factor_hover(self) =
                   (IF coaxial THEN Norm[11, 0 - 1] ELSE Norm[12, 0 - 1])
            /\ induced_power_factor_forward(self) =
                   (IF coaxial THEN Norm[16, 0 - 1] ELSE FromInt[2])
            /\ rotor_servo_power_proportion(self) = servo
            /\ propulsive_efficiency(self) =
                   FMul[da.MOTOR_EFFICIENCY, FSub[FromInt[1], servo]]
            /\ \A conventional \in
                      {calc_and_verify_initial_design(
                           ConventionalRotorcraft(self["_no_rotors"], self["_no_blades"]),
                           calls[i].design_mass).self} :
                   /\ (tilt => self["_no_nontilt_rotors"] = self["_no_rotors"])
                      => \A f \in {"_design_mass", "_max_thrust", "_max_thrust_per_rotor",
                                   "_rotor_radius"} : self[f] = conventional[f]
                   /\ (/\ tilt
                       /\ self["_no_nontilt_rotors"] = self["_no_rotors"]
                       /\ calls[i].exc # "TypeError"
                       /\ calls[i].msg # MsgDiameter)
                      => \A f \in {"_max_thrust_power", "_torque", "_motor_power_spec"} :
                             self[f] = conventional[f]

\* a tilt-rotor none of whose rotors tilt has been evaluated past the torque step
C21_Witness ==
    \E i \in DOMAIN calls :
        /\ calls[i].exc = "none" \/ calls[i].msg \in {MsgSpeed, MsgPayload}
        /\ calls[i].self["__class__"] = "TiltRotorcraft"
        /\ calls[i].self["_no_nontilt_rotors"] = calls[i].self["_no_rotors"]
        /\ "_torque" \in DOMAIN calls[i].self

\* C22: a calc_and_verify_initial_design call that reaches the energy step (it
\* returns a payload or fails on the payload) leaves _energy_per_sol =
\* BATTERY_CONTINGENCY * (_flight_energy + _ground_mobility_energy +
\* _sampling_mechanism_energy + _sleep_energy), the four being those of this call:
\* the single-flight energy of the mission scenario for the call's hover and
\* forward-flight power, GROUND_MOBILITY_POWER * GROUND_MOBILITY_TIME,
\* SAMPLING_MECHANISM_POWER * SAMPLING_TIME, and the sleep energy
\* 0.518 * design mass ^ (1/3) * SOL_SECONDS of the call's own design mass.
C22_EnergyPerSolIsContingencyTimesTheFourEnergies ==
    \A i \in DOMAIN calls :
        (calls[i].exc = "none" \/ calls[i].msg = MsgPayload) =>
            LET self == calls[i].self
                design_mass == IF Falsy(calls[i].design_mass) THEN dc.MASS_LIMIT
                               ELSE calls[i].design_mass[1]
            IN  /\ self["_energy_per_sol"] =
                       FMul[da.BATTERY_CONTINGENCY,
                            FAdd[FAdd[FAdd[self["_flight_energy"],
                                           self["_ground_mobility_energy"]],
                                      self["_sampling_mechanism_energy"]],
                                 self["_sleep_energy"]]]
                /\ self["_flight_energy"] =
                       get_single_flight_energy(mission_scenario, hover_power(self),
                                                f_flight_power(self), da.AVIONICS_POWER)
                /\ self["_ground_mobility_energy"] =
                       FMul[da.GROUND_MOBILITY_POWER, da.GROUND_MOBILITY_TIME]
                /\ self["_sampling_mechanism_energy"] =
                       FMul[da.SAMPLING_MECHANISM_POWER, da.SAMPLING_TIME]
                /\ self["_sleep_energy"] =
                       FMul[FMul[Norm[518, 0 - 3], FCbrt[design_mass]], SOL_SECONDS]

\* two calls in a row with different design masses both reached the energy step,
\* and the second left sleep and flight energies of its own
C22_Witness ==
    \E i \in DOMAIN calls :
        /\ i > 1
        /\ calls[i].exc = "none"
        /\ calls[i - 1].exc = "none" \/ calls[i - 1].msg = MsgPayload
        /\ calls[i].design_mass # calls[i - 1].design_mass
        /\ calls[i].self["_sleep_energy"] # calls[i - 1].self["_sleep_energy"]
        /\ calls[i].self["_flight_energy"] # calls[i - 1].self["_flight_energy"]

\* C23: a calc_and_verify_initial_design call without a design mass has the
\* outcome and leaves the instance as the same call with MASS_LIMIT does, and a
\* call with an explicitly given design mass leaves that design mass as the
\* instance's _design_mass.
C23_OmittedIsMassLimitAndGivenIsUsed ==
    [][\A i \in DOMAIN calls' :
          /\ calls'[i].design_mass = None =>
                 \A limit \in {calc_and_verify_initial_design(rotorcraft, <<dc.MASS_LIMIT>>)} :
                     /\ calls'[i].exc = limit.exc
                     /\ calls'[i].msg = limit.msg
                     /\ calls'[i].ret = limit.ret
                     /\ calls'[i].self = limit.self
          /\ calls'[i].design_mass # None =>
                 calls'[i].self["_design_mass"] = calls'[i].design_mass[1]]_vars

\* C24: on one instance, once a calc_and_verify_initial_design call has failed
\* the diameter check, every later call with a larger design mass fails the
\* diameter check too; and the largest design mass tried, 60 kg, fails it on
\* every instance.
C24_DiameterFailureUpwardClosed ==
    [][\A i \in DOMAIN calls' :
          LET Geometric(c) == c.exc = "ValueError" /\ c.msg = MsgDiameter
              Mass(c) == IF Falsy(c.design_mass) THEN dc.MASS_LIMIT ELSE c.design_mass[1]
          IN  /\ \A j \in DOMAIN calls :
                     (Geometric(calls[j]) /\ FLt[Mass(calls[j]), Mass(calls'[i])])
                     => Geometric(calls'[i])
              /\ \A j \in 1..(i - 1) :
                     (Geometric(calls'[j]) /\ FLt[Mass(calls'[j]), Mass(calls'[i])])
                     => Geometric(calls'[i])
              /\ Mass(calls'[i]) = FromInt[60] => Geometric(calls'[i])]_vars

\* C25: in every calc_and_verify_initial_design call the checks come in the
\* order diameter, cruise speed, payload, and the first that fails ends the call:
\* a diameter over MAX_DIAMETER is the failure reported whatever the later checks
\* would find, and nothing from the maximum thrust power on is written; with the
\* diameter in bounds, a maximum forward velocity under the cruise speed is the
\* failure reported and nothing from the energy per sol on is written; the
\* payload failure is reported only when both earlier checks passed.
C25_FirstFailingCheckEndsTheCall ==
    [][\A i \in DOMAIN calls' :
          LET before == IF i = 1 THEN rotorcraft ELSE calls'[i - 1].self
              after == calls'[i].self
              FromEnergyOn ==
                  {"_flight_energy", "_ground_mobility_energy", "_sampling_mechanism_energy",
                   "_sleep_energy", "_energy_per_sol", "_motor_mass", "_battery_mass",
                   "_solar_panel_mass", "_rotor_mass", "_structure_mass",
                   "_ground_mobility_mass", "_flight_electronics_mass", "_empty_mass",
                   "_total_available_mass", "_payload"}
              FromPowerOn == {"_max_thrust_power", "_torque", "_motor_power_spec"}
                             \cup FromEnergyOn
              Untouched(F) ==
                  \A f \in F : /\ f \in DOMAIN after <=> f \in DOMAIN before
                               /\ f \in DOMAIN before => after[f] = before[f]
          IN  /\ check_diameter(after) = "ValueError"
                 => /\ calls'[i].exc = "ValueError" /\ calls'[i].msg = MsgDiameter
                    /\ Untouched(FromPowerOn)
              /\ (check_diameter(after) = "none" /\ check_forward_velocity(after) = "ValueError")
                 => /\ calls'[i].exc = "ValueError" /\ calls'[i].msg = MsgSpeed
                    /\ Untouched(FromEnergyOn)
              /\ (check_diameter(after) = "none" /\ check_forward_velocity(after) = "none")
                 => /\ "_payload" \in DOMAIN after
                    /\ IF check_payload(after) = "ValueError"
                       THEN calls'[i].exc = "ValueError" /\ calls'[i].msg = MsgPayload
                       ELSE calls'[i].exc = "none" /\ calls'[i].ret = <<after["_payload"]>>]_vars

\* a call failed on the diameter for a design mass that also fails the cruise speed
C25_Witness ==
    \E i \in DOMAIN calls :
        /\ calls[i].exc = "ValueError"
        /\ calls[i].msg = MsgDiameter
        /\ check_forward_velocity(calls[i].self) = "ValueError"

\* C26: in the first calc_and_verify_initial_design call on an instance as
\* constructed, every statement finds the Design Evaluation State attributes it
\* reads, directly or through a property, among those the statements before it
\* in the same call have assigned; the call starts with none assigned, and a
\* statement reads no other such attribute: run on the configuration and the
\* attributes it reads alone, it does what it does on the whole instance.
C26_NoReadBeforeWrite ==
    \A t \in DOMAIN threads :
        (/\ \A u \in DOMAIN threads \ {t} : threads[u].self # threads[t].self
         /\ threads[t].i = 1
         /\ ~threads[t].done)
        => \A self \in {instances[threads[t].self]} :
           \A constructed \in {AsConstructed(self)} :
               /\ threads[t].pc = 37 => self = constructed
               /\ reads(threads[t].pc) \subseteq DOMAIN self \ DOMAIN constructed
               /\ reads(threads[t].pc) \subseteq DOMAIN self =>
                      \A whole \in {statement(self, <<threads[t].design_masses[1]>>,
                                              threads[t].pc)} :
                      \A part \in {statement([f \in DOMAIN constructed \cup reads(threads[t].pc)
                                                 |-> self[f]],
                                             <<threads[t].design_masses[1]>>, threads[t].pc)} :
                          /\ part.pc = whole.pc /\ part.ended = whole.ended
                          /\ part.exc = whole.exc /\ part.ret = whole.ret
                          /\ \A f \in DOMAIN part.self : part.self[f] = whole.self[f]

\* a tilt-rotor as constructed has run its first call down to the payload check
\* of line 66, and the thread with the other instance a whole call down to the
\* return of line 68
C26_Witness ==
    \E t \in DOMAIN threads : \E u \in DOMAIN threads \ {t} :
        /\ threads[u].self # threads[t].self
        /\ instances[threads[t].self]["__class__"] = "TiltRotorcraft"
        /\ threads[t].calls # <<>>
        /\ threads[t].calls[1].exc = "none" \/ threads[t].calls[1].msg = MsgPayload
        /\ threads[u].op = "calc_and_verify_initial_design"
        /\ threads[u].done
        /\ threads[u].pc = 68
        /\ threads[u].exc = "none"

\* C27: a calc_and_verify_initial_design call that gets past the diameter check
\* leaves as _max_thrust_power the thrust power at the maximum thrust per rotor,
\* _max_thrust / _no_rotors with the HOVER_THRUST_CONDITION multiplier in it, for
\* the hover induced-power factor and TIP_SPEED_LIMIT.
C27_MaxThrustPowerAtMaxThrustPerRotor ==
    \A i \in DOMAIN calls :
        (calls[i].exc = "none" \/ calls[i].msg \in {MsgSpeed, MsgPayload}) =>
            \A self \in {calls[i].self} :
                self["_max_thrust_power"] =
                    calc_thrust_power(self, FDiv[self["_max_thrust"], FromInt[self["_no_rotors"]]],
                                      rotor_area(self), induced_power_factor_hover(self),
                                      TIP_SPEED_LIMIT(dc), self["_no_rotors"])

\* C28: get_csv_summary called right after a successful
\* calc_and_verify_initial_design returns one value for each column of its
\* header, in the order of the header, each the quantity its column names:
\* no_nontilting_rotors the rotors that do not tilt, contingency_mass the
\* contingency share of the design mass, structure_mass the structure mass, and
\* so on down to the payload.
C28_SummaryMatchesHeader ==
    [][(/\ last.op = "calc_and_verify_initial_design"
        /\ last.exc = "none"
        /\ last'.op = "get_csv_summary")
       => LET self == rotorcraft
              Column(c) ==
                  CASE c = "aircraft" -> name(self)
                    [] c = "no_rotors" -> self["_no_rotors"]
                    [] c = "no_nontilting_rotors" ->
                           (IF self["__class__"] = "TiltRotorcraft"
                            THEN self["_no_nontilt_rotors"] ELSE self["_no_rotors"])
                    [] c = "no_blades" -> self["_no_blades"]
                    [] c = "max_thrust_requirement" -> self["_max_thrust"]
                    [] c = "rotor_radius" -> self["_rotor_radius"]
                    [] c = "max_thrust_power" -> self["_max_thrust_power"]
                    [] c = "hover_power" -> hover_power(self)
                    [] c = "f_flight_power" -> f_flight_power(self)
                    [] c = "motor_rpm_hover" -> motor_rpm_hover(self)
                    [] c = "motor_power" -> self["_max_thrust_power"]
                    [] c = "motor_power_spec" -> self["_motor_power_spec"]
                    [] c = "motor_torque" -> self["_torque"]
                    [] c = "max_forward_velocity" -> max_forward_velocity(self)
                    [] c = "total_energy" -> self["_energy_per_sol"]
                    [] c = "flight_energy" -> self["_flight_energy"]
                    [] c = "ground_energy" -> self["_ground_mobility_energy"]
                    [] c = "sampling_energy" -> self["_sampling_mechanism_energy"]
                    [] c = "sleep_energy" -> self["_sleep_energy"]
                    [] c = "design_mass" -> self["_design_mass"]
                    [] c = "contingency_mass" ->
                           FMul[self["_design_mass"], dc.CONTINGENCY_WEIGHT_FACTOR]
                    [] c = "motor_mass" -> self["_motor_mass"]
                    [] c = "battery_mass" -> self["_battery_mass"]
                    [] c = "solar_panel_mass" -> self["_solar_panel_mass"]
                    [] c = "rotor_mass" -> self["_rotor_mass"]
                    [] c = "structure_mass" -> self["_structure_mass"]
                    [] c = "ground_mobility_mass" -> self["_ground_mobility_mass"]
                    [] c = "flight_elec_mass" -> self["_flight_electronics_mass"]
                    [] c = "total_empty_mass" -> self["_empty_mass"]
                    [] c = "payload" -> self["_payload"]
          IN  /\ last'.exc = "none"
              /\ Len(last'.ret) = Len(CsvHeader)
              /\ \A k \in DOMAIN CsvHeader : last'.ret[k] = Column(CsvHeader[k])]_vars

\* C29: when number_of_blades_analysis returns, its three series (valid design
\* masses, payload efficiencies, rotor radiuses) have the same length, one
\* entry for each grid point whose evaluation returned, and entry i of the
\* efficiencies is the payload of the i-th evaluation that returned divided by
\* valid_design_masses[i], entry i of the rotor radiuses the rotor radius that
\* evaluation computed, also when grid points before it failed.
C29_SeriesAlignedWithValidDesignMasses ==
    (last.op = "number_of_blades_analysis" /\ last.exc = "none") =>
        LET Returned(c) == c.exc = "none"
            returned == SelectSeq(calls, Returned)
            valid_design_masses == last.ret[1]
            payload_efficiencies == last.ret[2]
            rotor_radiuses == last.ret[3]
        IN  /\ Len(valid_design_masses) = Len(returned)
            /\ Len(payload_efficiencies) = Len(returned)
            /\ Len(rotor_radiuses) = Len(returned)
            /\ \A i \in DOMAIN returned :
                   /\ returned[i].design_mass = <<valid_design_masses[i]>>
                   /\ payload_efficiencies[i] =
                          FDiv[returned[i].ret[1], valid_design_masses[i]]
                   /\ rotor_radiuses[i] = returned[i].self["_rotor_radius"]

\* C30: when trade_payload_for_battery returns, its payload levels hold no
\* value twice, never decrease from one entry to the next, and end with the
\* maximum payload of the evaluation, whatever the maximum payload (a whole
\* number included) and whatever min_payload (one above the maximum payload
\* included).
C30_LevelsDistinctAndAscending ==
    (last.op = "trade_payload_for_battery" /\ last.exc = "none") =>
        LET max_payload == calls[1].ret[1]
            valid_payloads == last.ret[1]
            n == Len(valid_payloads)
        IN  /\ n >= 1
            /\ valid_payloads[n] = max_payload
            /\ \A k \in 1..(n - 1) : ~FGt[valid_payloads[k], valid_payloads[k + 1]]
            /\ \A j, k \in 1..n :
                   j < k => (\/ FLt[valid_payloads[j], valid_payloads[k]]
                             \/ FGt[valid_payloads[j], valid_payloads[k]])

====
